---- MODULE Spec2Model ----
(***************************************************************************)
(* A model of the table-extraction pipeline of adu-scraper:                *)
(*   - the text helpers, the header classifier, the column mapper and the  *)
(*     table processor of src/src/pdf_processor.py (pure operators),       *)
(*   - the document walker extract_tables_from_pdf (a state machine over   *)
(*     the tables of one document),                                        *)
(*   - the batch loop download_and_process_all_pdfs of src/src/scraper.py. *)
(*                                                                         *)
(* Python strings are sequences of one-character strings, so that          *)
(* substring tests, whitespace splitting, case folding and the two regular *)
(* expressions are computed and not postulated.  Python's None is the      *)
(* value None below; str(None) is the four characters "None".              *)
(***************************************************************************)
EXTENDS Integers, Sequences, FiniteSets, TLC

\* ------------------------------------------------------------------ bounds
\* Longest table (in rows) handed to process_table on its own.
MaxRows == 3
\* Number of tables of one document the walker is run over.
MaxTables == 3
\* Number of links the listing returns in the batch model.
MaxLinks == 2

\* ------------------------------------------------------- string primitives
None == <<"<None>">>

S_None == <<"N", "o", "n", "e">>
S_none == <<"n", "o", "n", "e">>
S_true == <<"t", "r", "u", "e">>
S_false == <<"f", "a", "l", "s", "e">>
S_adu == <<"a", "d", "u">>
S_Unknown == <<"U", "n", "k", "n", "o", "w", "n">>
S_CouncilDistrict == <<"C", "o", "u", "n", "c", "i", "l", " ", "D", "i", "s", "t", "r", "i", "c", "t">>
S_dashes == <<"-", "-">>

Digits == <<"0", "1", "2", "3", "4", "5", "6", "7", "8", "9">>

Range(f) == {f[i] : i \in DOMAIN f}

\* ---------------------------------------------------------------- characters
\* A character is a one-character string where the module can spell it:
\* printable ASCII other than the backquote, "\t", "\n", "\f", "\r", and the
\* printable characters of Latin-1.  Every other character is written as its
\* code point, "U+" and four to six upper-case hexadecimal digits: "U+000B",
\* "U+0060", "U+00A0", "U+0663", "U+1D7CE".  The tables below are those of
\* the Unicode database the interpreter carries (unicodedata 14.0.0).

\* chr(32) .. chr(126)
Ascii ==
    <<" ", "!", "\"", "#", "$", "%", "&", "'", "(", ")", "*", "+", ",", "-",
      ".", "/", "0", "1", "2", "3", "4", "5", "6", "7", "8", "9", ":", ";",
      "<", "=", ">", "?", "@", "A", "B", "C", "D", "E", "F", "G", "H", "I",
      "J", "K", "L", "M", "N", "O", "P", "Q", "R", "S", "T", "U", "V", "W",
      "X", "Y", "Z", "[", "\\", "]", "^", "_", "U+0060", "a", "b", "c", "d",
      "e", "f", "g", "h", "i", "j", "k", "l", "m", "n", "o", "p", "q", "r",
      "s", "t", "u", "v", "w", "x", "y", "z", "{", "|", "}", "~">>

\* chr(161) .. chr(255)
Latin1 ==
    <<"¡", "¢", "£", "¤", "¥", "¦", "§", "¨", "©", "ª", "«", "¬", "U+00AD",
      "®", "¯", "°", "±", "²", "³", "´", "µ", "¶", "·", "¸", "¹", "º", "»",
      "¼", "½", "¾", "¿", "À", "Á", "Â", "Ã", "Ä", "Å", "Æ", "Ç", "È", "É",
      "Ê", "Ë", "Ì", "Í", "Î", "Ï", "Ð", "Ñ", "Ò", "Ó", "Ô", "Õ", "Ö", "×",
      "Ø", "Ù", "Ú", "Û", "Ü", "Ý", "Þ", "ß", "à", "á", "â", "ã", "ä", "å",
      "æ", "ç", "è", "é", "ê", "ë", "ì", "í", "î", "ï", "ð", "ñ", "ò", "ó",
      "ô", "õ", "ö", "÷", "ø", "ù", "ú", "û", "ü", "ý", "þ", "ÿ">>

Hex(n, k) ==
    <<"0", "1", "2", "3", "4", "5", "6", "7", "8", "9", "A", "B", "C", "D", "E", "F">>[((n \div k) % 16) + 1]

CodePointName(n) ==
    "U+" \o (IF n >= 1048576 THEN "10"
             ELSE IF n >= 65536 THEN Hex(n, 65536) ELSE "")
         \o Hex(n, 4096) \o Hex(n, 256) \o Hex(n, 16) \o Hex(n, 1)

\* chr(n)
Chr(n) ==
    IF n \in 32..126 THEN Ascii[n - 31]
    ELSE IF n \in 161..255 THEN Latin1[n - 160]
    ELSE IF n = 9 THEN "\t"
    ELSE IF n = 10 THEN "\n"
    ELSE IF n = 12 THEN "\f"
    ELSE IF n = 13 THEN "\r"
    ELSE CodePointName(n)

\* the characters whose code point lies in one of the ranges <<first, last>>
CharsIn(ranges) ==
    {Chr(n) : n \in UNION {r[1]..r[2] : r \in Range(ranges)}}

\* the code points str.isspace() holds for: what str.split() splits at and
\* what \s matches in a str pattern
SpaceCodes ==
    <<9, 10, 11, 12, 13, 28, 29, 30, 31, 32, 133, 160, 5760, 8192, 8193, 8194,
      8195, 8196, 8197, 8198, 8199, 8200, 8201, 8202, 8232, 8233, 8239, 8287,
      12288>>

SpaceChars == {Chr(n) : n \in Range(SpaceCodes)}

\* the code point of the digit zero of every run of decimal digits (category
\* Nd); the digits one to nine follow it
DecimalZeros ==
    <<48, 1632, 1776, 1984, 2406, 2534, 2662, 2790, 2918, 3046, 3174, 3302,
      3430, 3558, 3664, 3792, 3872, 4160, 4240, 6112, 6160, 6470, 6608, 6784,
      6800, 6992, 7088, 7232, 7248, 42528, 43216, 43264, 43472, 43504, 43600,
      44016, 65296, 66720, 68912, 69734, 69872, 69942, 70096, 70384, 70736,
      70864, 71248, 71360, 71472, 71904, 72016, 72784, 73040, 73120, 92768,
      92864, 93008, 120782, 120792, 120802, 120812, 120822, 123200, 123632,
      125264, 130032>>

\* the characters int() reads as the digit v
DigitsOfValue == [v \in 0..9 |-> {Chr(z + v) : z \in Range(DecimalZeros)}]

DecimalDigits == UNION {DigitsOfValue[v] : v \in 0..9}

\* the code points \w matches in a str pattern (alphanumerics and "_"), as
\* ranges <<first, last>>
WordRanges ==
    <<<<48, 57>>, <<65, 90>>, <<95, 95>>, <<97, 122>>, <<170, 170>>,
      <<178, 179>>, <<181, 181>>, <<185, 186>>, <<188, 190>>, <<192, 214>>,
      <<216, 246>>, <<248, 705>>, <<710, 721>>, <<736, 740>>, <<748, 748>>,
      <<750, 750>>, <<880, 884>>, <<886, 887>>, <<890, 893>>, <<895, 895>>,
      <<902, 902>>, <<904, 906>>, <<908, 908>>, <<910, 929>>, <<931, 1013>>,
      <<1015, 1153>>, <<1162, 1327>>, <<1329, 1366>>, <<1369, 1369>>,
      <<1376, 1416>>, <<1488, 1514>>, <<1519, 1522>>, <<1568, 1610>>,
      <<1632, 1641>>, <<1646, 1647>>, <<1649, 1747>>, <<1749, 1749>>,
      <<1765, 1766>>, <<1774, 1788>>, <<1791, 1791>>, <<1808, 1808>>,
      <<1810, 1839>>, <<1869, 1957>>, <<1969, 1969>>, <<1984, 2026>>,
      <<2036, 2037>>, <<2042, 2042>>, <<2048, 2069>>, <<2074, 2074>>,
      <<2084, 2084>>, <<2088, 2088>>, <<2112, 2136>>, <<2144, 2154>>,
      <<2160, 2183>>, <<2185, 2190>>, <<2208, 2249>>, <<2308, 2361>>,
      <<2365, 2365>>, <<2384, 2384>>, <<2392, 2401>>, <<2406, 2415>>,
      <<2417, 2432>>, <<2437, 2444>>, <<2447, 2448>>, <<2451, 2472>>,
      <<2474, 2480>>, <<2482, 2482>>, <<2486, 2489>>, <<2493, 2493>>,
      <<2510, 2510>>, <<2524, 2525>>, <<2527, 2529>>, <<2534, 2545>>,
      <<2548, 2553>>, <<2556, 2556>>, <<2565, 2570>>, <<2575, 2576>>,
      <<2579, 2600>>, <<2602, 2608>>, <<2610, 2611>>, <<2613, 2614>>,
      <<2616, 2617>>, <<2649, 2652>>, <<2654, 2654>>, <<2662, 2671>>,
      <<2674, 2676>>, <<2693, 2701>>, <<2703, 2705>>, <<2707, 2728>>,
      <<2730, 2736>>, <<2738, 2739>>, <<2741, 2745>>, <<2749, 2749>>,
      <<2768, 2768>>, <<2784, 2785>>, <<2790, 2799>>, <<2809, 2809>>,
      <<2821, 2828>>, <<2831, 2832>>, <<2835, 2856>>, <<2858, 2864>>,
      <<2866, 2867>>, <<2869, 2873>>, <<2877, 2877>>, <<2908, 2909>>,
      <<2911, 2913>>, <<2918, 2927>>, <<2929, 2935>>, <<2947, 2947>>,
      <<2949, 2954>>, <<2958, 2960>>, <<2962, 2965>>, <<2969, 2970>>,
      <<2972, 2972>>, <<2974, 2975>>, <<2979, 2980>>, <<2984, 2986>>,
      <<2990, 3001>>, <<3024, 3024>>, <<3046, 3058>>, <<3077, 3084>>,
      <<3086, 3088>>, <<3090, 3112>>, <<3114, 3129>>, <<3133, 3133>>,
      <<3160, 3162>>, <<3165, 3165>>, <<3168, 3169>>, <<3174, 3183>>,
      <<3192, 3198>>, <<3200, 3200>>, <<3205, 3212>>, <<3214, 3216>>,
      <<3218, 3240>>, <<3242, 3251>>, <<3253, 3257>>, <<3261, 3261>>,
      <<3293, 3294>>, <<3296, 3297>>, <<3302, 3311>>, <<3313, 3314>>,
      <<3332, 3340>>, <<3342, 3344>>, <<3346, 3386>>, <<3389, 3389>>,
      <<3406, 3406>>, <<3412, 3414>>, <<3416, 3425>>, <<3430, 3448>>,
      <<3450, 3455>>, <<3461, 3478>>, <<3482, 3505>>, <<3507, 3515>>,
      <<3517, 3517>>, <<3520, 3526>>, <<3558, 3567>>, <<3585, 3632>>,
      <<3634, 3635>>, <<3648, 3654>>, <<3664, 3673>>, <<3713, 3714>>,
      <<3716, 3716>>, <<3718, 3722>>, <<3724, 3747>>, <<3749, 3749>>,
      <<3751, 3760>>, <<3762, 3763>>, <<3773, 3773>>, <<3776, 3780>>,
      <<3782, 3782>>, <<3792, 3801>>, <<3804, 3807>>, <<3840, 3840>>,
      <<3872, 3891>>, <<3904, 3911>>, <<3913, 3948>>, <<3976, 3980>>,
      <<4096, 4138>>, <<4159, 4169>>, <<4176, 4181>>, <<4186, 4189>>,
      <<4193, 4193>>, <<4197, 4198>>, <<4206, 4208>>, <<4213, 4225>>,
      <<4238, 4238>>, <<4240, 4249>>, <<4256, 4293>>, <<4295, 4295>>,
      <<4301, 4301>>, <<4304, 4346>>, <<4348, 4680>>, <<4682, 4685>>,
      <<4688, 4694>>, <<4696, 4696>>, <<4698, 4701>>, <<4704, 4744>>,
      <<4746, 4749>>, <<4752, 4784>>, <<4786, 4789>>, <<4792, 4798>>,
      <<4800, 4800>>, <<4802, 4805>>, <<4808, 4822>>, <<4824, 4880>>,
      <<4882, 4885>>, <<4888, 4954>>, <<4969, 4988>>, <<4992, 5007>>,
      <<5024, 5109>>, <<5112, 5117>>, <<5121, 5740>>, <<5743, 5759>>,
      <<5761, 5786>>, <<5792, 5866>>, <<5870, 5880>>, <<5888, 5905>>,
      <<5919, 5937>>, <<5952, 5969>>, <<5984, 5996>>, <<5998, 6000>>,
      <<6016, 6067>>, <<6103, 6103>>, <<6108, 6108>>, <<6112, 6121>>,
      <<6128, 6137>>, <<6160, 6169>>, <<6176, 6264>>, <<6272, 6276>>,
      <<6279, 6312>>, <<6314, 6314>>, <<6320, 6389>>, <<6400, 6430>>,
      <<6470, 6509>>, <<6512, 6516>>, <<6528, 6571>>, <<6576, 6601>>,
      <<6608, 6618>>, <<6656, 6678>>, <<6688, 6740>>, <<6784, 6793>>,
      <<6800, 6809>>, <<6823, 6823>>, <<6917, 6963>>, <<6981, 6988>>,
      <<6992, 7001>>, <<7043, 7072>>, <<7086, 7141>>, <<7168, 7203>>,
      <<7232, 7241>>, <<7245, 7293>>, <<7296, 7304>>, <<7312, 7354>>,
      <<7357, 7359>>, <<7401, 7404>>, <<7406, 7411>>, <<7413, 7414>>,
      <<7418, 7418>>, <<7424, 7615>>, <<7680, 7957>>, <<7960, 7965>>,
      <<7968, 8005>>, <<8008, 8013>>, <<8016, 8023>>, <<8025, 8025>>,
      <<8027, 8027>>, <<8029, 8029>>, <<8031, 8061>>, <<8064, 8116>>,
      <<8118, 8124>>, <<8126, 8126>>, <<8130, 8132>>, <<8134, 8140>>,
      <<8144, 8147>>, <<8150, 8155>>, <<8160, 8172>>, <<8178, 8180>>,
      <<8182, 8188>>, <<8304, 8305>>, <<8308, 8313>>, <<8319, 8329>>,
      <<8336, 8348>>, <<8450, 8450>>, <<8455, 8455>>, <<8458, 8467>>,
      <<8469, 8469>>, <<8473, 8477>>, <<8484, 8484>>, <<8486, 8486>>,
      <<8488, 8488>>, <<8490, 8493>>, <<8495, 8505>>, <<8508, 8511>>,
      <<8517, 8521>>, <<8526, 8526>>, <<8528, 8585>>, <<9312, 9371>>,
      <<9450, 9471>>, <<10102, 10131>>, <<11264, 11492>>, <<11499, 11502>>,
      <<11506, 11507>>, <<11517, 11517>>, <<11520, 11557>>, <<11559, 11559>>,
      <<11565, 11565>>, <<11568, 11623>>, <<11631, 11631>>, <<11648, 11670>>,
      <<11680, 11686>>, <<11688, 11694>>, <<11696, 11702>>, <<11704, 11710>>,
      <<11712, 11718>>, <<11720, 11726>>, <<11728, 11734>>, <<11736, 11742>>,
      <<11823, 11823>>, <<12293, 12295>>, <<12321, 12329>>, <<12337, 12341>>,
      <<12344, 12348>>, <<12353, 12438>>, <<12445, 12447>>, <<12449, 12538>>,
      <<12540, 12543>>, <<12549, 12591>>, <<12593, 12686>>, <<12690, 12693>>,
      <<12704, 12735>>, <<12784, 12799>>, <<12832, 12841>>, <<12872, 12879>>,
      <<12881, 12895>>, <<12928, 12937>>, <<12977, 12991>>, <<13312, 19903>>,
      <<19968, 42124>>, <<42192, 42237>>, <<42240, 42508>>, <<42512, 42539>>,
      <<42560, 42606>>, <<42623, 42653>>, <<42656, 42735>>, <<42775, 42783>>,
      <<42786, 42888>>, <<42891, 42954>>, <<42960, 42961>>, <<42963, 42963>>,
      <<42965, 42969>>, <<42994, 43009>>, <<43011, 43013>>, <<43015, 43018>>,
      <<43020, 43042>>, <<43056, 43061>>, <<43072, 43123>>, <<43138, 43187>>,
      <<43216, 43225>>, <<43250, 43255>>, <<43259, 43259>>, <<43261, 43262>>,
      <<43264, 43301>>, <<43312, 43334>>, <<43360, 43388>>, <<43396, 43442>>,
      <<43471, 43481>>, <<43488, 43492>>, <<43494, 43518>>, <<43520, 43560>>,
      <<43584, 43586>>, <<43588, 43595>>, <<43600, 43609>>, <<43616, 43638>>,
      <<43642, 43642>>, <<43646, 43695>>, <<43697, 43697>>, <<43701, 43702>>,
      <<43705, 43709>>, <<43712, 43712>>, <<43714, 43714>>, <<43739, 43741>>,
      <<43744, 43754>>, <<43762, 43764>>, <<43777, 43782>>, <<43785, 43790>>,
      <<43793, 43798>>, <<43808, 43814>>, <<43816, 43822>>, <<43824, 43866>>,
      <<43868, 43881>>, <<43888, 44002>>, <<44016, 44025>>, <<44032, 55203>>,
      <<55216, 55238>>, <<55243, 55291>>, <<63744, 64109>>, <<64112, 64217>>,
      <<64256, 64262>>, <<64275, 64279>>, <<64285, 64285>>, <<64287, 64296>>,
      <<64298, 64310>>, <<64312, 64316>>, <<64318, 64318>>, <<64320, 64321>>,
      <<64323, 64324>>, <<64326, 64433>>, <<64467, 64829>>, <<64848, 64911>>,
      <<64914, 64967>>, <<65008, 65019>>, <<65136, 65140>>, <<65142, 65276>>,
      <<65296, 65305>>, <<65313, 65338>>, <<65345, 65370>>, <<65382, 65470>>,
      <<65474, 65479>>, <<65482, 65487>>, <<65490, 65495>>, <<65498, 65500>>,
      <<65536, 65547>>, <<65549, 65574>>, <<65576, 65594>>, <<65596, 65597>>,
      <<65599, 65613>>, <<65616, 65629>>, <<65664, 65786>>, <<65799, 65843>>,
      <<65856, 65912>>, <<65930, 65931>>, <<66176, 66204>>, <<66208, 66256>>,
      <<66273, 66299>>, <<66304, 66339>>, <<66349, 66378>>, <<66384, 66421>>,
      <<66432, 66461>>, <<66464, 66499>>, <<66504, 66511>>, <<66513, 66517>>,
      <<66560, 66717>>, <<66720, 66729>>, <<66736, 66771>>, <<66776, 66811>>,
      <<66816, 66855>>, <<66864, 66915>>, <<66928, 66938>>, <<66940, 66954>>,
      <<66956, 66962>>, <<66964, 66965>>, <<66967, 66977>>, <<66979, 66993>>,
      <<66995, 67001>>, <<67003, 67004>>, <<67072, 67382>>, <<67392, 67413>>,
      <<67424, 67431>>, <<67456, 67461>>, <<67463, 67504>>, <<67506, 67514>>,
      <<67584, 67589>>, <<67592, 67592>>, <<67594, 67637>>, <<67639, 67640>>,
      <<67644, 67644>>, <<67647, 67669>>, <<67672, 67702>>, <<67705, 67742>>,
      <<67751, 67759>>, <<67808, 67826>>, <<67828, 67829>>, <<67835, 67867>>,
      <<67872, 67897>>, <<67968, 68023>>, <<68028, 68047>>, <<68050, 68096>>,
      <<68112, 68115>>, <<68117, 68119>>, <<68121, 68149>>, <<68160, 68168>>,
      <<68192, 68222>>, <<68224, 68255>>, <<68288, 68295>>, <<68297, 68324>>,
      <<68331, 68335>>, <<68352, 68405>>, <<68416, 68437>>, <<68440, 68466>>,
      <<68472, 68497>>, <<68521, 68527>>, <<68608, 68680>>, <<68736, 68786>>,
      <<68800, 68850>>, <<68858, 68899>>, <<68912, 68921>>, <<69216, 69246>>,
      <<69248, 69289>>, <<69296, 69297>>, <<69376, 69415>>, <<69424, 69445>>,
      <<69457, 69460>>, <<69488, 69505>>, <<69552, 69579>>, <<69600, 69622>>,
      <<69635, 69687>>, <<69714, 69743>>, <<69745, 69746>>, <<69749, 69749>>,
      <<69763, 69807>>, <<69840, 69864>>, <<69872, 69881>>, <<69891, 69926>>,
      <<69942, 69951>>, <<69956, 69956>>, <<69959, 69959>>, <<69968, 70002>>,
      <<70006, 70006>>, <<70019, 70066>>, <<70081, 70084>>, <<70096, 70106>>,
      <<70108, 70108>>, <<70113, 70132>>, <<70144, 70161>>, <<70163, 70187>>,
      <<70272, 70278>>, <<70280, 70280>>, <<70282, 70285>>, <<70287, 70301>>,
      <<70303, 70312>>, <<70320, 70366>>, <<70384, 70393>>, <<70405, 70412>>,
      <<70415, 70416>>, <<70419, 70440>>, <<70442, 70448>>, <<70450, 70451>>,
      <<70453, 70457>>, <<70461, 70461>>, <<70480, 70480>>, <<70493, 70497>>,
      <<70656, 70708>>, <<70727, 70730>>, <<70736, 70745>>, <<70751, 70753>>,
      <<70784, 70831>>, <<70852, 70853>>, <<70855, 70855>>, <<70864, 70873>>,
      <<71040, 71086>>, <<71128, 71131>>, <<71168, 71215>>, <<71236, 71236>>,
      <<71248, 71257>>, <<71296, 71338>>, <<71352, 71352>>, <<71360, 71369>>,
      <<71424, 71450>>, <<71472, 71483>>, <<71488, 71494>>, <<71680, 71723>>,
      <<71840, 71922>>, <<71935, 71942>>, <<71945, 71945>>, <<71948, 71955>>,
      <<71957, 71958>>, <<71960, 71983>>, <<71999, 71999>>, <<72001, 72001>>,
      <<72016, 72025>>, <<72096, 72103>>, <<72106, 72144>>, <<72161, 72161>>,
      <<72163, 72163>>, <<72192, 72192>>, <<72203, 72242>>, <<72250, 72250>>,
      <<72272, 72272>>, <<72284, 72329>>, <<72349, 72349>>, <<72368, 72440>>,
      <<72704, 72712>>, <<72714, 72750>>, <<72768, 72768>>, <<72784, 72812>>,
      <<72818, 72847>>, <<72960, 72966>>, <<72968, 72969>>, <<72971, 73008>>,
      <<73030, 73030>>, <<73040, 73049>>, <<73056, 73061>>, <<73063, 73064>>,
      <<73066, 73097>>, <<73112, 73112>>, <<73120, 73129>>, <<73440, 73458>>,
      <<73648, 73648>>, <<73664, 73684>>, <<73728, 74649>>, <<74752, 74862>>,
      <<74880, 75075>>, <<77712, 77808>>, <<77824, 78894>>, <<82944, 83526>>,
      <<92160, 92728>>, <<92736, 92766>>, <<92768, 92777>>, <<92784, 92862>>,
      <<92864, 92873>>, <<92880, 92909>>, <<92928, 92975>>, <<92992, 92995>>,
      <<93008, 93017>>, <<93019, 93025>>, <<93027, 93047>>, <<93053, 93071>>,
      <<93760, 93846>>, <<93952, 94026>>, <<94032, 94032>>, <<94099, 94111>>,
      <<94176, 94177>>, <<94179, 94179>>, <<94208, 100343>>,
      <<100352, 101589>>, <<101632, 101640>>, <<110576, 110579>>,
      <<110581, 110587>>, <<110589, 110590>>, <<110592, 110882>>,
      <<110928, 110930>>, <<110948, 110951>>, <<110960, 111355>>,
      <<113664, 113770>>, <<113776, 113788>>, <<113792, 113800>>,
      <<113808, 113817>>, <<119520, 119539>>, <<119648, 119672>>,
      <<119808, 119892>>, <<119894, 119964>>, <<119966, 119967>>,
      <<119970, 119970>>, <<119973, 119974>>, <<119977, 119980>>,
      <<119982, 119993>>, <<119995, 119995>>, <<119997, 120003>>,
      <<120005, 120069>>, <<120071, 120074>>, <<120077, 120084>>,
      <<120086, 120092>>, <<120094, 120121>>, <<120123, 120126>>,
      <<120128, 120132>>, <<120134, 120134>>, <<120138, 120144>>,
      <<120146, 120485>>, <<120488, 120512>>, <<120514, 120538>>,
      <<120540, 120570>>, <<120572, 120596>>, <<120598, 120628>>,
      <<120630, 120654>>, <<120656, 120686>>, <<120688, 120712>>,
      <<120714, 120744>>, <<120746, 120770>>, <<120772, 120779>>,
      <<120782, 120831>>, <<122624, 122654>>, <<123136, 123180>>,
      <<123191, 123197>>, <<123200, 123209>>, <<123214, 123214>>,
      <<123536, 123565>>, <<123584, 123627>>, <<123632, 123641>>,
      <<124896, 124902>>, <<124904, 124907>>, <<124909, 124910>>,
      <<124912, 124926>>, <<124928, 125124>>, <<125127, 125135>>,
      <<125184, 125251>>, <<125259, 125259>>, <<125264, 125273>>,
      <<126065, 126123>>, <<126125, 126127>>, <<126129, 126132>>,
      <<126209, 126253>>, <<126255, 126269>>, <<126464, 126467>>,
      <<126469, 126495>>, <<126497, 126498>>, <<126500, 126500>>,
      <<126503, 126503>>, <<126505, 126514>>, <<126516, 126519>>,
      <<126521, 126521>>, <<126523, 126523>>, <<126530, 126530>>,
      <<126535, 126535>>, <<126537, 126537>>, <<126539, 126539>>,
      <<126541, 126543>>, <<126545, 126546>>, <<126548, 126548>>,
      <<126551, 126551>>, <<126553, 126553>>, <<126555, 126555>>,
      <<126557, 126557>>, <<126559, 126559>>, <<126561, 126562>>,
      <<126564, 126564>>, <<126567, 126570>>, <<126572, 126578>>,
      <<126580, 126583>>, <<126585, 126588>>, <<126590, 126590>>,
      <<126592, 126601>>, <<126603, 126619>>, <<126625, 126627>>,
      <<126629, 126633>>, <<126635, 126651>>, <<127232, 127244>>,
      <<130032, 130041>>, <<131072, 173791>>, <<173824, 177976>>,
      <<177984, 178205>>, <<178208, 183969>>, <<183984, 191456>>,
      <<194560, 195101>>, <<196608, 201546>>>>

WordChars == CharsIn(WordRanges)

\* str.lower() of one character, where it is another single character: runs
\* <<first, last, step, delta>>; the characters first, first + step, .. last
\* go to the character delta code points further
LowerRuns ==
    <<<<65, 90, 1, 32>>, <<192, 214, 1, 32>>, <<216, 222, 1, 32>>,
      <<256, 302, 2, 1>>, <<306, 310, 2, 1>>, <<313, 327, 2, 1>>,
      <<330, 374, 2, 1>>, <<376, 376, 1, -121>>, <<377, 381, 2, 1>>,
      <<385, 385, 1, 210>>, <<386, 388, 2, 1>>, <<390, 390, 1, 206>>,
      <<391, 391, 1, 1>>, <<393, 394, 1, 205>>, <<395, 395, 1, 1>>,
      <<398, 398, 1, 79>>, <<399, 399, 1, 202>>, <<400, 400, 1, 203>>,
      <<401, 401, 1, 1>>, <<403, 403, 1, 205>>, <<404, 404, 1, 207>>,
      <<406, 406, 1, 211>>, <<407, 407, 1, 209>>, <<408, 408, 1, 1>>,
      <<412, 412, 1, 211>>, <<413, 413, 1, 213>>, <<415, 415, 1, 214>>,
      <<416, 420, 2, 1>>, <<422, 422, 1, 218>>, <<423, 423, 1, 1>>,
      <<425, 425, 1, 218>>, <<428, 428, 1, 1>>, <<430, 430, 1, 218>>,
      <<431, 431, 1, 1>>, <<433, 434, 1, 217>>, <<435, 437, 2, 1>>,
      <<439, 439, 1, 219>>, <<440, 440, 1, 1>>, <<444, 444, 1, 1>>,
      <<452, 452, 1, 2>>, <<453, 453, 1, 1>>, <<455, 455, 1, 2>>,
      <<456, 456, 1, 1>>, <<458, 458, 1, 2>>, <<459, 475, 2, 1>>,
      <<478, 494, 2, 1>>, <<497, 497, 1, 2>>, <<498, 500, 2, 1>>,
      <<502, 502, 1, -97>>, <<503, 503, 1, -56>>, <<504, 542, 2, 1>>,
      <<544, 544, 1, -130>>, <<546, 562, 2, 1>>, <<570, 570, 1, 10795>>,
      <<571, 571, 1, 1>>, <<573, 573, 1, -163>>, <<574, 574, 1, 10792>>,
      <<577, 577, 1, 1>>, <<579, 579, 1, -195>>, <<580, 580, 1, 69>>,
      <<581, 581, 1, 71>>, <<582, 590, 2, 1>>, <<880, 882, 2, 1>>,
      <<886, 886, 1, 1>>, <<895, 895, 1, 116>>, <<902, 902, 1, 38>>,
      <<904, 906, 1, 37>>, <<908, 908, 1, 64>>, <<910, 911, 1, 63>>,
      <<913, 929, 1, 32>>, <<931, 939, 1, 32>>, <<975, 975, 1, 8>>,
      <<984, 1006, 2, 1>>, <<1012, 1012, 1, -60>>, <<1015, 1015, 1, 1>>,
      <<1017, 1017, 1, -7>>, <<1018, 1018, 1, 1>>, <<1021, 1023, 1, -130>>,
      <<1024, 1039, 1, 80>>, <<1040, 1071, 1, 32>>, <<1120, 1152, 2, 1>>,
      <<1162, 1214, 2, 1>>, <<1216, 1216, 1, 15>>, <<1217, 1229, 2, 1>>,
      <<1232, 1326, 2, 1>>, <<1329, 1366, 1, 48>>, <<4256, 4293, 1, 7264>>,
      <<4295, 4295, 1, 7264>>, <<4301, 4301, 1, 7264>>,
      <<5024, 5103, 1, 38864>>, <<5104, 5109, 1, 8>>,
      <<7312, 7354, 1, -3008>>, <<7357, 7359, 1, -3008>>,
      <<7680, 7828, 2, 1>>, <<7838, 7838, 1, -7615>>, <<7840, 7934, 2, 1>>,
      <<7944, 7951, 1, -8>>, <<7960, 7965, 1, -8>>, <<7976, 7983, 1, -8>>,
      <<7992, 7999, 1, -8>>, <<8008, 8013, 1, -8>>, <<8025, 8031, 2, -8>>,
      <<8040, 8047, 1, -8>>, <<8072, 8079, 1, -8>>, <<8088, 8095, 1, -8>>,
      <<8104, 8111, 1, -8>>, <<8120, 8121, 1, -8>>, <<8122, 8123, 1, -74>>,
      <<8124, 8124, 1, -9>>, <<8136, 8139, 1, -86>>, <<8140, 8140, 1, -9>>,
      <<8152, 8153, 1, -8>>, <<8154, 8155, 1, -100>>, <<8168, 8169, 1, -8>>,
      <<8170, 8171, 1, -112>>, <<8172, 8172, 1, -7>>, <<8184, 8185, 1, -128>>,
      <<8186, 8187, 1, -126>>, <<8188, 8188, 1, -9>>,
      <<8486, 8486, 1, -7517>>, <<8490, 8490, 1, -8383>>,
      <<8491, 8491, 1, -8262>>, <<8498, 8498, 1, 28>>, <<8544, 8559, 1, 16>>,
      <<8579, 8579, 1, 1>>, <<9398, 9423, 1, 26>>, <<11264, 11311, 1, 48>>,
      <<11360, 11360, 1, 1>>, <<11362, 11362, 1, -10743>>,
      <<11363, 11363, 1, -3814>>, <<11364, 11364, 1, -10727>>,
      <<11367, 11371, 2, 1>>, <<11373, 11373, 1, -10780>>,
      <<11374, 11374, 1, -10749>>, <<11375, 11375, 1, -10783>>,
      <<11376, 11376, 1, -10782>>, <<11378, 11378, 1, 1>>,
      <<11381, 11381, 1, 1>>, <<11390, 11391, 1, -10815>>,
      <<11392, 11490, 2, 1>>, <<11499, 11501, 2, 1>>, <<11506, 11506, 1, 1>>,
      <<42560, 42604, 2, 1>>, <<42624, 42650, 2, 1>>, <<42786, 42798, 2, 1>>,
      <<42802, 42862, 2, 1>>, <<42873, 42875, 2, 1>>,
      <<42877, 42877, 1, -35332>>, <<42878, 42886, 2, 1>>,
      <<42891, 42891, 1, 1>>, <<42893, 42893, 1, -42280>>,
      <<42896, 42898, 2, 1>>, <<42902, 42920, 2, 1>>,
      <<42922, 42922, 1, -42308>>, <<42923, 42923, 1, -42319>>,
      <<42924, 42924, 1, -42315>>, <<42925, 42925, 1, -42305>>,
      <<42926, 42926, 1, -42308>>, <<42928, 42928, 1, -42258>>,
      <<42929, 42929, 1, -42282>>, <<42930, 42930, 1, -42261>>,
      <<42931, 42931, 1, 928>>, <<42932, 42946, 2, 1>>,
      <<42948, 42948, 1, -48>>, <<42949, 42949, 1, -42307>>,
      <<42950, 42950, 1, -35384>>, <<42951, 42953, 2, 1>>,
      <<42960, 42960, 1, 1>>, <<42966, 42968, 2, 1>>, <<42997, 42997, 1, 1>>,
      <<65313, 65338, 1, 32>>, <<66560, 66599, 1, 40>>,
      <<66736, 66771, 1, 40>>, <<66928, 66938, 1, 39>>,
      <<66940, 66954, 1, 39>>, <<66956, 66962, 1, 39>>,
      <<66964, 66965, 1, 39>>, <<68736, 68786, 1, 64>>,
      <<71840, 71871, 1, 32>>, <<93760, 93791, 1, 32>>,
      <<125184, 125217, 1, 34>>>>

\* the code points of a run, and the characters of each run
RunCodes(r) == {n \in r[1]..r[2] : (n - r[1]) % r[3] = 0}

RunChars == [k \in DOMAIN LowerRuns |-> {Chr(n) : n \in RunCodes(LowerRuns[k])}]

\* the characters str.lower() changes into another single character
UpperChars == UNION {RunChars[k] : k \in DOMAIN LowerRuns}

ToLower ==
    [c \in UpperChars |->
        LET k == CHOOSE k \in DOMAIN LowerRuns : c \in RunChars[k]
            n == CHOOSE n \in RunCodes(LowerRuns[k]) : Chr(n) = c
        IN  Chr(n + LowerRuns[k][4])]

\* the context classes of the Final_Sigma rule of str.lower(): the cased
\* characters at which the scan for a neighbour stops (Cased and not
\* Case_Ignorable), and the characters the scan passes over (Case_Ignorable)
CasedRanges ==
    <<<<65, 90>>, <<97, 122>>, <<170, 170>>, <<181, 181>>, <<186, 186>>,
      <<192, 214>>, <<216, 246>>, <<248, 442>>, <<444, 447>>, <<452, 659>>,
      <<661, 687>>, <<880, 883>>, <<886, 887>>, <<891, 893>>, <<895, 895>>,
      <<902, 902>>, <<904, 906>>, <<908, 908>>, <<910, 929>>, <<931, 1013>>,
      <<1015, 1153>>, <<1162, 1327>>, <<1329, 1366>>, <<1376, 1416>>,
      <<4256, 4293>>, <<4295, 4295>>, <<4301, 4301>>, <<4304, 4346>>,
      <<4349, 4351>>, <<5024, 5109>>, <<5112, 5117>>, <<7296, 7304>>,
      <<7312, 7354>>, <<7357, 7359>>, <<7424, 7467>>, <<7531, 7543>>,
      <<7545, 7578>>, <<7680, 7957>>, <<7960, 7965>>, <<7968, 8005>>,
      <<8008, 8013>>, <<8016, 8023>>, <<8025, 8025>>, <<8027, 8027>>,
      <<8029, 8029>>, <<8031, 8061>>, <<8064, 8116>>, <<8118, 8124>>,
      <<8126, 8126>>, <<8130, 8132>>, <<8134, 8140>>, <<8144, 8147>>,
      <<8150, 8155>>, <<8160, 8172>>, <<8178, 8180>>, <<8182, 8188>>,
      <<8450, 8450>>, <<8455, 8455>>, <<8458, 8467>>, <<8469, 8469>>,
      <<8473, 8477>>, <<8484, 8484>>, <<8486, 8486>>, <<8488, 8488>>,
      <<8490, 8493>>, <<8495, 8500>>, <<8505, 8505>>, <<8508, 8511>>,
      <<8517, 8521>>, <<8526, 8526>>, <<8544, 8575>>, <<8579, 8580>>,
      <<9398, 9449>>, <<11264, 11387>>, <<11390, 11492>>, <<11499, 11502>>,
      <<11506, 11507>>, <<11520, 11557>>, <<11559, 11559>>, <<11565, 11565>>,
      <<42560, 42605>>, <<42624, 42651>>, <<42786, 42863>>, <<42865, 42887>>,
      <<42891, 42894>>, <<42896, 42954>>, <<42960, 42961>>, <<42963, 42963>>,
      <<42965, 42969>>, <<42997, 42998>>, <<43002, 43002>>, <<43824, 43866>>,
      <<43872, 43880>>, <<43888, 43967>>, <<64256, 64262>>, <<64275, 64279>>,
      <<65313, 65338>>, <<65345, 65370>>, <<66560, 66639>>, <<66736, 66771>>,
      <<66776, 66811>>, <<66928, 66938>>, <<66940, 66954>>, <<66956, 66962>>,
      <<66964, 66965>>, <<66967, 66977>>, <<66979, 66993>>, <<66995, 67001>>,
      <<67003, 67004>>, <<68736, 68786>>, <<68800, 68850>>, <<71840, 71903>>,
      <<93760, 93823>>, <<119808, 119892>>, <<119894, 119964>>,
      <<119966, 119967>>, <<119970, 119970>>, <<119973, 119974>>,
      <<119977, 119980>>, <<119982, 119993>>, <<119995, 119995>>,
      <<119997, 120003>>, <<120005, 120069>>, <<120071, 120074>>,
      <<120077, 120084>>, <<120086, 120092>>, <<120094, 120121>>,
      <<120123, 120126>>, <<120128, 120132>>, <<120134, 120134>>,
      <<120138, 120144>>, <<120146, 120485>>, <<120488, 120512>>,
      <<120514, 120538>>, <<120540, 120570>>, <<120572, 120596>>,
      <<120598, 120628>>, <<120630, 120654>>, <<120656, 120686>>,
      <<120688, 120712>>, <<120714, 120744>>, <<120746, 120770>>,
      <<120772, 120779>>, <<122624, 122633>>, <<122635, 122654>>,
      <<125184, 125251>>, <<127280, 127305>>, <<127312, 127337>>,
      <<127344, 127369>>>>

CasedChars == CharsIn(CasedRanges)

CaseIgnorableRanges ==
    <<<<39, 39>>, <<46, 46>>, <<58, 58>>, <<94, 94>>, <<96, 96>>,
      <<168, 168>>, <<173, 173>>, <<175, 175>>, <<180, 180>>, <<183, 184>>,
      <<688, 879>>, <<884, 885>>, <<890, 890>>, <<900, 901>>, <<903, 903>>,
      <<1155, 1161>>, <<1369, 1369>>, <<1375, 1375>>, <<1425, 1469>>,
      <<1471, 1471>>, <<1473, 1474>>, <<1476, 1477>>, <<1479, 1479>>,
      <<1524, 1524>>, <<1536, 1541>>, <<1552, 1562>>, <<1564, 1564>>,
      <<1600, 1600>>, <<1611, 1631>>, <<1648, 1648>>, <<1750, 1757>>,
      <<1759, 1768>>, <<1770, 1773>>, <<1807, 1807>>, <<1809, 1809>>,
      <<1840, 1866>>, <<1958, 1968>>, <<2027, 2037>>, <<2042, 2042>>,
      <<2045, 2045>>, <<2070, 2093>>, <<2137, 2139>>, <<2184, 2184>>,
      <<2192, 2193>>, <<2200, 2207>>, <<2249, 2306>>, <<2362, 2362>>,
      <<2364, 2364>>, <<2369, 2376>>, <<2381, 2381>>, <<2385, 2391>>,
      <<2402, 2403>>, <<2417, 2417>>, <<2433, 2433>>, <<2492, 2492>>,
      <<2497, 2500>>, <<2509, 2509>>, <<2530, 2531>>, <<2558, 2558>>,
      <<2561, 2562>>, <<2620, 2620>>, <<2625, 2626>>, <<2631, 2632>>,
      <<2635, 2637>>, <<2641, 2641>>, <<2672, 2673>>, <<2677, 2677>>,
      <<2689, 2690>>, <<2748, 2748>>, <<2753, 2757>>, <<2759, 2760>>,
      <<2765, 2765>>, <<2786, 2787>>, <<2810, 2815>>, <<2817, 2817>>,
      <<2876, 2876>>, <<2879, 2879>>, <<2881, 2884>>, <<2893, 2893>>,
      <<2901, 2902>>, <<2914, 2915>>, <<2946, 2946>>, <<3008, 3008>>,
      <<3021, 3021>>, <<3072, 3072>>, <<3076, 3076>>, <<3132, 3132>>,
      <<3134, 3136>>, <<3142, 3144>>, <<3146, 3149>>, <<3157, 3158>>,
      <<3170, 3171>>, <<3201, 3201>>, <<3260, 3260>>, <<3263, 3263>>,
      <<3270, 3270>>, <<3276, 3277>>, <<3298, 3299>>, <<3328, 3329>>,
      <<3387, 3388>>, <<3393, 3396>>, <<3405, 3405>>, <<3426, 3427>>,
      <<3457, 3457>>, <<3530, 3530>>, <<3538, 3540>>, <<3542, 3542>>,
      <<3633, 3633>>, <<3636, 3642>>, <<3654, 3662>>, <<3761, 3761>>,
      <<3764, 3772>>, <<3782, 3782>>, <<3784, 3789>>, <<3864, 3865>>,
      <<3893, 3893>>, <<3895, 3895>>, <<3897, 3897>>, <<3953, 3966>>,
      <<3968, 3972>>, <<3974, 3975>>, <<3981, 3991>>, <<3993, 4028>>,
      <<4038, 4038>>, <<4141, 4144>>, <<4146, 4151>>, <<4153, 4154>>,
      <<4157, 4158>>, <<4184, 4185>>, <<4190, 4192>>, <<4209, 4212>>,
      <<4226, 4226>>, <<4229, 4230>>, <<4237, 4237>>, <<4253, 4253>>,
      <<4348, 4348>>, <<4957, 4959>>, <<5906, 5908>>, <<5938, 5939>>,
      <<5970, 5971>>, <<6002, 6003>>, <<6068, 6069>>, <<6071, 6077>>,
      <<6086, 6086>>, <<6089, 6099>>, <<6103, 6103>>, <<6109, 6109>>,
      <<6155, 6159>>, <<6211, 6211>>, <<6277, 6278>>, <<6313, 6313>>,
      <<6432, 6434>>, <<6439, 6440>>, <<6450, 6450>>, <<6457, 6459>>,
      <<6679, 6680>>, <<6683, 6683>>, <<6742, 6742>>, <<6744, 6750>>,
      <<6752, 6752>>, <<6754, 6754>>, <<6757, 6764>>, <<6771, 6780>>,
      <<6783, 6783>>, <<6823, 6823>>, <<6832, 6862>>, <<6912, 6915>>,
      <<6964, 6964>>, <<6966, 6970>>, <<6972, 6972>>, <<6978, 6978>>,
      <<7019, 7027>>, <<7040, 7041>>, <<7074, 7077>>, <<7080, 7081>>,
      <<7083, 7085>>, <<7142, 7142>>, <<7144, 7145>>, <<7149, 7149>>,
      <<7151, 7153>>, <<7212, 7219>>, <<7222, 7223>>, <<7288, 7293>>,
      <<7376, 7378>>, <<7380, 7392>>, <<7394, 7400>>, <<7405, 7405>>,
      <<7412, 7412>>, <<7416, 7417>>, <<7468, 7530>>, <<7544, 7544>>,
      <<7579, 7679>>, <<8125, 8125>>, <<8127, 8129>>, <<8141, 8143>>,
      <<8157, 8159>>, <<8173, 8175>>, <<8189, 8190>>, <<8203, 8207>>,
      <<8216, 8217>>, <<8228, 8228>>, <<8231, 8231>>, <<8234, 8238>>,
      <<8288, 8292>>, <<8294, 8303>>, <<8305, 8305>>, <<8319, 8319>>,
      <<8336, 8348>>, <<8400, 8432>>, <<11388, 11389>>, <<11503, 11505>>,
      <<11631, 11631>>, <<11647, 11647>>, <<11744, 11775>>, <<11823, 11823>>,
      <<12293, 12293>>, <<12330, 12333>>, <<12337, 12341>>, <<12347, 12347>>,
      <<12441, 12446>>, <<12540, 12542>>, <<40981, 40981>>, <<42232, 42237>>,
      <<42508, 42508>>, <<42607, 42610>>, <<42612, 42621>>, <<42623, 42623>>,
      <<42652, 42655>>, <<42736, 42737>>, <<42752, 42785>>, <<42864, 42864>>,
      <<42888, 42890>>, <<42994, 42996>>, <<43000, 43001>>, <<43010, 43010>>,
      <<43014, 43014>>, <<43019, 43019>>, <<43045, 43046>>, <<43052, 43052>>,
      <<43204, 43205>>, <<43232, 43249>>, <<43263, 43263>>, <<43302, 43309>>,
      <<43335, 43345>>, <<43392, 43394>>, <<43443, 43443>>, <<43446, 43449>>,
      <<43452, 43453>>, <<43471, 43471>>, <<43493, 43494>>, <<43561, 43566>>,
      <<43569, 43570>>, <<43573, 43574>>, <<43587, 43587>>, <<43596, 43596>>,
      <<43632, 43632>>, <<43644, 43644>>, <<43696, 43696>>, <<43698, 43700>>,
      <<43703, 43704>>, <<43710, 43711>>, <<43713, 43713>>, <<43741, 43741>>,
      <<43756, 43757>>, <<43763, 43764>>, <<43766, 43766>>, <<43867, 43871>>,
      <<43881, 43883>>, <<44005, 44005>>, <<44008, 44008>>, <<44013, 44013>>,
      <<64286, 64286>>, <<64434, 64450>>, <<65024, 65039>>, <<65043, 65043>>,
      <<65056, 65071>>, <<65106, 65106>>, <<65109, 65109>>, <<65279, 65279>>,
      <<65287, 65287>>, <<65294, 65294>>, <<65306, 65306>>, <<65342, 65342>>,
      <<65344, 65344>>, <<65392, 65392>>, <<65438, 65439>>, <<65507, 65507>>,
      <<65529, 65531>>, <<66045, 66045>>, <<66272, 66272>>, <<66422, 66426>>,
      <<67456, 67461>>, <<67463, 67504>>, <<67506, 67514>>, <<68097, 68099>>,
      <<68101, 68102>>, <<68108, 68111>>, <<68152, 68154>>, <<68159, 68159>>,
      <<68325, 68326>>, <<68900, 68903>>, <<69291, 69292>>, <<69446, 69456>>,
      <<69506, 69509>>, <<69633, 69633>>, <<69688, 69702>>, <<69744, 69744>>,
      <<69747, 69748>>, <<69759, 69761>>, <<69811, 69814>>, <<69817, 69818>>,
      <<69821, 69821>>, <<69826, 69826>>, <<69837, 69837>>, <<69888, 69890>>,
      <<69927, 69931>>, <<69933, 69940>>, <<70003, 70003>>, <<70016, 70017>>,
      <<70070, 70078>>, <<70089, 70092>>, <<70095, 70095>>, <<70191, 70193>>,
      <<70196, 70196>>, <<70198, 70199>>, <<70206, 70206>>, <<70367, 70367>>,
      <<70371, 70378>>, <<70400, 70401>>, <<70459, 70460>>, <<70464, 70464>>,
      <<70502, 70508>>, <<70512, 70516>>, <<70712, 70719>>, <<70722, 70724>>,
      <<70726, 70726>>, <<70750, 70750>>, <<70835, 70840>>, <<70842, 70842>>,
      <<70847, 70848>>, <<70850, 70851>>, <<71090, 71093>>, <<71100, 71101>>,
      <<71103, 71104>>, <<71132, 71133>>, <<71219, 71226>>, <<71229, 71229>>,
      <<71231, 71232>>, <<71339, 71339>>, <<71341, 71341>>, <<71344, 71349>>,
      <<71351, 71351>>, <<71453, 71455>>, <<71458, 71461>>, <<71463, 71467>>,
      <<71727, 71735>>, <<71737, 71738>>, <<71995, 71996>>, <<71998, 71998>>,
      <<72003, 72003>>, <<72148, 72151>>, <<72154, 72155>>, <<72160, 72160>>,
      <<72193, 72202>>, <<72243, 72248>>, <<72251, 72254>>, <<72263, 72263>>,
      <<72273, 72278>>, <<72281, 72283>>, <<72330, 72342>>, <<72344, 72345>>,
      <<72752, 72758>>, <<72760, 72765>>, <<72767, 72767>>, <<72850, 72871>>,
      <<72874, 72880>>, <<72882, 72883>>, <<72885, 72886>>, <<73009, 73014>>,
      <<73018, 73018>>, <<73020, 73021>>, <<73023, 73029>>, <<73031, 73031>>,
      <<73104, 73105>>, <<73109, 73109>>, <<73111, 73111>>, <<73459, 73460>>,
      <<78896, 78904>>, <<92912, 92916>>, <<92976, 92982>>, <<92992, 92995>>,
      <<94031, 94031>>, <<94095, 94111>>, <<94176, 94177>>, <<94179, 94180>>,
      <<110576, 110579>>, <<110581, 110587>>, <<110589, 110590>>,
      <<113821, 113822>>, <<113824, 113827>>, <<118528, 118573>>,
      <<118576, 118598>>, <<119143, 119145>>, <<119155, 119170>>,
      <<119173, 119179>>, <<119210, 119213>>, <<119362, 119364>>,
      <<121344, 121398>>, <<121403, 121452>>, <<121461, 121461>>,
      <<121476, 121476>>, <<121499, 121503>>, <<121505, 121519>>,
      <<122880, 122886>>, <<122888, 122904>>, <<122907, 122913>>,
      <<122915, 122916>>, <<122918, 122922>>, <<123184, 123197>>,
      <<123566, 123566>>, <<123628, 123631>>, <<125136, 125142>>,
      <<125252, 125259>>, <<127995, 127999>>, <<917505, 917505>>,
      <<917536, 917631>>, <<917760, 917999>>>>

CaseIgnorableChars == CharsIn(CaseIgnorableRanges)


\* bool(x) for a cell or a string: None and "" are falsy.
Truthy(x) == x # None /\ x # <<>>

\* str(cell)
Str(cell) == IF cell = None THEN S_None ELSE cell

\* c.lower() for a string of one character: one character, or two for
\* U+0130 (capital I with dot above)
LowerChar(c) ==
    IF c = Chr(304) THEN <<"i", Chr(775)>>
    ELSE IF c \in DOMAIN ToLower THEN <<ToLower[c]>>
    ELSE <<c>>

\* the capital sigma at position i is in the Final_Sigma context: going back
\* over case-ignorable characters a cased one is met, and going forward over
\* case-ignorable characters none is
FinalSigma(s, i) ==
    /\ \E j \in 1..(i - 1) :
          /\ s[j] \in CasedChars
          /\ \A k \in (j + 1)..(i - 1) : s[k] \in CaseIgnorableChars
    /\ ~\E j \in (i + 1)..Len(s) :
          /\ s[j] \in CasedChars
          /\ \A k \in (i + 1)..(j - 1) : s[k] \in CaseIgnorableChars

\* the characters the character at position i of s becomes in s.lower()
LowerAt(s, i) ==
    IF s[i] = Chr(931)
    THEN <<IF FinalSigma(s, i) THEN Chr(962) ELSE Chr(963)>>
    ELSE LowerChar(s[i])

RECURSIVE Concat(_)
Concat(parts) ==
    IF parts = <<>> THEN <<>> ELSE Head(parts) \o Concat(Tail(parts))

\* s.lower(): character by character when every character stays one
\* character, the pieces joined otherwise
Lower(s) ==
    IF \A i \in DOMAIN s : Len(LowerAt(s, i)) = 1
    THEN [i \in DOMAIN s |-> LowerAt(s, i)[1]]
    ELSE Concat([i \in DOMAIN s |-> LowerAt(s, i)])

\* str.split() separators and the regular expression class \s
IsSpace(c) == c \in SpaceChars

\* the regular expression class \d
IsDigit(c) == c \in DecimalDigits

\* the regular expression class \w (what \b is defined by)
IsWordChar(c) == c \in WordChars

\* needle in hay
Contains(needle, hay) ==
    \E i \in 0..(Len(hay) - Len(needle)) :
        \A j \in 1..Len(needle) : hay[i + j] = needle[j]

\* s.replace(a, b) for a one-character a
ReplaceChar(s, a, b) == [i \in DOMAIN s |-> IF s[i] = a THEN b ELSE s[i]]

\* s.split(): the maximal runs of non-whitespace characters, in order
RECURSIVE SplitFrom(_, _)
SplitFrom(s, cur) ==
    IF s = <<>>
    THEN IF cur = <<>> THEN <<>> ELSE <<cur>>
    ELSE IF IsSpace(Head(s))
         THEN IF cur = <<>>
              THEN SplitFrom(Tail(s), <<>>)
              ELSE <<cur>> \o SplitFrom(Tail(s), <<>>)
         ELSE SplitFrom(Tail(s), Append(cur, Head(s)))

Split(s) == SplitFrom(s, <<>>)

\* sep.join(words)
RECURSIVE Join(_, _)
Join(words, sep) ==
    IF words = <<>> THEN <<>>
    ELSE IF Len(words) = 1 THEN words[1]
    ELSE words[1] \o sep \o Join(Tail(words), sep)

\* ----------------------------------------------------------- pdf_processor
STANDARD_COLUMNS ==
    <<"Council District", "Filing Date", "Case Number", "Address", "CNC",
      "Community Plan Area", "Project Description", "Request Type",
      "Applicant Contact", "Is ADU">>

\* map_column_name's "no match" result (Python None)
NoName == "<None>"

clean_text(text) ==
    IF ~Truthy(text) THEN <<>>
    ELSE Join(Split(ReplaceChar(text, "\n", " ")), <<" ">>)

\* header_map of map_column_name, in insertion order
header_map ==
    << <<(<<"f", "i", "l", "i", "n", "g", " ", "d", "a", "t", "e">>), "Filing Date">>,
       <<(<<"c", "a", "s", "e", " ", "n", "u", "m", "b", "e", "r">>), "Case Number">>,
       <<(<<"c", "a", "s", "e">>), "Case Number">>,
       <<(<<"a", "d", "d", "r", "e", "s", "s">>), "Address">>,
       <<(<<"c", "n", "c">>), "CNC">>,
       <<(<<"c", "o", "m", "m", "u", "n", "i", "t", "y", " ", "p", "l", "a", "n", " ", "a", "r", "e", "a">>), "Community Plan Area">>,
       <<(<<"c", "o", "m", "m", "u", "n", "i", "t", "y", " ", "p", "l", "a", "n">>), "Community Plan Area">>,
       <<(<<"p", "r", "o", "j", "e", "c", "t", " ", "d", "e", "s", "c", "r", "i", "p", "t", "i", "o", "n">>), "Project Description">>,
       <<(<<"d", "e", "s", "c", "r", "i", "p", "t", "i", "o", "n">>), "Project Description">>,
       <<(<<"r", "e", "q", "u", "e", "s", "t", " ", "t", "y", "p", "e">>), "Request Type">>,
       <<(<<"r", "e", "q", "u", "e", "s", "t">>), "Request Type">>,
       <<(<<"a", "p", "p", "l", "i", "c", "a", "n", "t", " ", "c", "o", "n", "t", "a", "c", "t">>), "Applicant Contact">>,
       <<(<<"a", "p", "p", "l", "i", "c", "a", "n", "t">>), "Applicant Contact">>,
       <<(<<"c", "o", "n", "t", "a", "c", "t">>), "Applicant Contact">> >>

map_column_name(header) ==
    LET h == Lower(clean_text(header))
        exact == {k \in DOMAIN header_map : header_map[k][1] = h}
        partial == {k \in DOMAIN header_map : Contains(header_map[k][1], h)}
        first(S) == CHOOSE k \in S : \A m \in S : k <= m
    IN  IF exact # {} THEN header_map[first(exact)][2]
        ELSE IF partial # {} THEN header_map[first(partial)][2]
        ELSE NoName

\* re.search(r'Council District\s*--\s*(\d+)', title): the match that starts
\* at the leftmost position; \s* and \d+ are greedy and nothing they consume
\* can be given back to what follows them.
RECURSIVE SkipSpaces(_, _)
SkipSpaces(s, i) ==
    IF i <= Len(s) /\ IsSpace(s[i]) THEN SkipSpaces(s, i + 1) ELSE i

RECURSIVE TakeDigits(_, _)
TakeDigits(s, i) ==
    IF i <= Len(s) /\ IsDigit(s[i]) THEN <<s[i]>> \o TakeDigits(s, i + 1) ELSE <<>>

\* the group (\d+) of a match that starts at position p, or <<>> when the
\* pattern does not match there
DistrictMatchAt(title, p) ==
    LET n == Len(S_CouncilDistrict)
    IN  IF p + n - 1 > Len(title) \/ SubSeq(title, p, p + n - 1) # S_CouncilDistrict
        THEN <<>>
        ELSE LET a == SkipSpaces(title, p + n)
             IN  IF a + 1 > Len(title) \/ SubSeq(title, a, a + 1) # S_dashes
                 THEN <<>>
                 ELSE TakeDigits(title, SkipSpaces(title, a + 2))

extract_district_from_title(title) ==
    LET hits == {p \in 1..Len(title) : DistrictMatchAt(title, p) # <<>>}
    IN  IF hits = {} THEN S_Unknown
        ELSE DistrictMatchAt(title, CHOOSE p \in hits : \A q \in hits : p <= q)

header_terms ==
    << <<"d", "a", "t", "e">>, <<"c", "a", "s", "e">>,
       <<"a", "d", "d", "r", "e", "s", "s">>, <<"c", "n", "c">>,
       <<"c", "o", "m", "m", "u", "n", "i", "t", "y">>,
       <<"p", "r", "o", "j", "e", "c", "t">>,
       <<"r", "e", "q", "u", "e", "s", "t">>,
       <<"a", "p", "p", "l", "i", "c", "a", "n", "t">>,
       <<"c", "o", "n", "t", "a", "c", "t">> >>

\* the cells of a row that are truthy, lower-cased through str(), in order
RECURSIVE TruthyLowered(_)
TruthyLowered(row) ==
    IF row = <<>> THEN <<>>
    ELSE IF Truthy(Head(row))
         THEN <<Lower(Str(Head(row)))>> \o TruthyLowered(Tail(row))
         ELSE TruthyLowered(Tail(row))

is_header_row(row) ==
    IF row = <<>> THEN FALSE
    ELSE LET row_text == Join(TruthyLowered(row), <<" ">>)
         IN  \E t \in DOMAIN header_terms : Contains(header_terms[t], row_text)

\* the empty dict {} ; the walker's "no mapping" (None) is falsy like it
EmptyMapping == <<>>

\* lines 143-145 for one cell: the standard name, or NoName
CellName(cell) ==
    IF Truthy(cell) THEN map_column_name(Str(cell)) ELSE NoName

\* only the columns that resolved are stored
DropNoName(names) ==
    [j \in {j \in DOMAIN names : names[j] # NoName} |-> names[j]]

\* the column mapping find_header_row builds from one row: Python's 0-based
\* column index -> canonical name, for the truthy cells that resolve
RowMapping(row) ==
    DropNoName([j \in 0..(Len(row) - 1) |-> CellName(row[j + 1])])

\* the first row (top to bottom) whose mapping is not empty
FirstMapped(maps) ==
    LET ok == {i \in DOMAIN maps : maps[i] # EmptyMapping}
    IN  IF ok = {} THEN <<-1, EmptyMapping>>
        ELSE LET i == CHOOSE i \in ok : \A k \in ok : i <= k
             IN  <<i - 1, maps[i]>>

\* find_header_row stopping at the first header-classified row, whether or
\* not any of its cells resolves to a column
find_header_row_FirstClassified(table) ==
    LET hdr == {i \in DOMAIN table : is_header_row(table[i])}
    IN  IF hdr = {} THEN <<-1, EmptyMapping>>
        ELSE LET i == CHOOSE i \in hdr : \A k \in hdr : i <= k
             IN  <<i - 1, RowMapping(table[i])>>

\* find_header_row: <<0-based row index, mapping>> or <<-1, {}>>
find_header_row(table) ==
    FirstMapped([i \in DOMAIN table |->
                    IF is_header_row(table[i]) THEN RowMapping(table[i])
                    ELSE EmptyMapping])

\* "if not column_mapping": None and {} are both falsy
MappingTruthy(column_mapping) == column_mapping # EmptyMapping

\* EmptyOrHeaderRow without its repeated-header test
EmptyOrHeaderRow_NoHeaderTest(row) ==
    ~(\E k \in DOMAIN row : Truthy(row[k]))

\* line 182: the row is empty, or it classifies as a header row
EmptyOrHeaderRow(row) ==
    \/ ~(\E k \in DOMAIN row : Truthy(row[k]))
    \/ is_header_row(row)

\* line 186: a district header row such as
\* "Council District -- 1,None,None,None,None,None,None,None"
DistrictHeaderRow(row) ==
    /\ Len(row) > 1
    /\ Contains(S_CouncilDistrict, Str(row[1]))
    /\ \A k \in 2..Len(row) : Lower(Str(row[k])) = S_none

RowSkipped(row) == EmptyOrHeaderRow(row) \/ DistrictHeaderRow(row)

\* SliceIndices for table[start_idx:], the last row not held back
SliceIndices_ToEnd(table, start_idx) ==
    LET n == Len(table) - start_idx
    IN  [k \in 1..(IF n > 0 THEN n ELSE 0) |-> start_idx + k]

\* the 1-based positions of the rows of table[start_idx:-1], in order
SliceIndices(table, start_idx) ==
    LET n == Len(table) - 1 - start_idx
    IN  [k \in 1..(IF n > 0 THEN n ELSE 0) |-> start_idx + k]

\* the positions among them whose row is not skipped
RECURSIVE KeepDataRows(_, _)
KeepDataRows(table, idx) ==
    IF idx = <<>> THEN <<>>
    ELSE IF RowSkipped(table[Head(idx)])
         THEN KeepDataRows(table, Tail(idx))
         ELSE <<Head(idx)>> \o KeepDataRows(table, Tail(idx))

\* row_data[name] = value (a dict assignment adds the key when it is new)
DictSet(d, name, value) ==
    [c \in DOMAIN d \cup {name} |-> IF c = name THEN value ELSE d[c]]

\* EmptyRecord holding only the columns a header usually names
EmptyRecord_MappedOnly ==
    [c \in {"Council District", "Case Number", "Address", "Project Description", "Is ADU"} |-> <<>>]

\* line 189: every standard column, empty
EmptyRecord == [c \in Range(STANDARD_COLUMNS) |-> <<>>]

\* lines 192-194, from the cell with 0-based index i on
RECURSIVE FillCells(_, _, _, _)
FillCells(row_data, row, i, column_mapping) ==
    IF i >= Len(row) THEN row_data
    ELSE FillCells(
            IF i \in DOMAIN column_mapping
            THEN DictSet(row_data, column_mapping[i], clean_text(Str(row[i + 1])))
            ELSE row_data,
            row, i + 1, column_mapping)

\* re.search(r'\badu\b', text): "adu" with no word character on either side
HasAduWord(text) ==
    \E i \in 1..(Len(text) - 2) :
        /\ SubSeq(text, i, i + 2) = S_adu
        /\ (i = 1 \/ ~IsWordChar(text[i - 1]))
        /\ (i + 2 = Len(text) \/ ~IsWordChar(text[i + 3]))

\* lines 196-198: the derived flag
WithAduFlag(row_data) ==
    DictSet(row_data, "Is ADU",
            IF HasAduWord(Lower(IF "Project Description" \in DOMAIN row_data
                                THEN row_data["Project Description"] ELSE <<>>))
            THEN S_true ELSE S_false)

\* lines 189-198: the record of one data row
MakeRecord(row, district, column_mapping) ==
    WithAduFlag(FillCells(DictSet(EmptyRecord, "Council District", district),
                          row, 0, column_mapping))

NoResult == [rows |-> <<>>, mapping |-> EmptyMapping, src |-> <<>>]

\* lines 180-206 once the rows that survive are known: rows and mapping are
\* the returned pair; src is, for each returned record, the 1-based position
\* in `table` of the row it was built from (kept for the properties, not part
\* of the Python value)
RowsOf(table, district, column_mapping, idx) ==
    [rows |-> [k \in DOMAIN idx |-> MakeRecord(table[idx[k]], district, column_mapping)],
     mapping |-> column_mapping,
     src |-> idx]

BuildRows(table, district, column_mapping, start_idx) ==
    RowsOf(table, district, column_mapping,
           KeepDataRows(table, SliceIndices(table, start_idx)))

\* lines 169-174
AfterHeaderSearch(table, district, found) ==
    IF found[1] = -1 THEN NoResult
    ELSE BuildRows(table, district, found[2], found[1] + 1)

\* process_table searching for a header row even when a mapping is supplied
process_table_SearchAgain(table, district, column_mapping) ==
    IF ~MappingTruthy(column_mapping) \/ find_header_row(table)[1] # -1
    THEN AfterHeaderSearch(table, district, find_header_row(table))
    ELSE BuildRows(table, district, column_mapping, 0)

process_table(table, district, column_mapping) ==
    IF ~MappingTruthy(column_mapping)
    THEN AfterHeaderSearch(table, district, find_header_row(table))
    ELSE BuildRows(table, district, column_mapping, 0)

\* ------------------------------------------------------------- input pools
\* Cell texts as the extraction collaborator returns them.
S_Title3 == <<"C", "o", "u", "n", "c", "i", "l", " ", "D", "i", "s", "t", "r", "i", "c", "t", " ", "-", "-", " ", "3">>
S_Title16 == <<"C", "o", "u", "n", "c", "i", "l", " ", "D", "i", "s", "t", "r", "i", "c", "t", " ", "-", "-", "1", "6">>
S_CaseNumber == <<"C", "a", "s", "e", " ", "N", "u", "m", "b", "e", "r">>
S_Address == <<"A", "d", "d", "r", "e", "s", "s">>
S_ProjectDescription == <<"P", "r", "o", "j", "e", "c", "t", "\n", "D", "e", "s", "c", "r", "i", "p", "t", "i", "o", "n">>
S_Case == <<"C", "a", "s", "e">>
S_Notes == <<"N", "o", "t", "e", "s">>
S_Update == <<"U", "p", "d", "a", "t", "e">>
S_ZA1 == <<"Z", "A", "-", "1">>
S_ZA2 == <<"Z", "A", "-", "2">>
S_Elm == <<"1", "2", " ", " ", "E", "l", "m", " ", "S", "t">>
S_NewADU == <<"N", "e", "w", " ", "A", "D", "U">>
S_Stadium == <<"s", "t", "a", "d", "i", "u", "m">>
S_Total == <<"T", "o", "t", "a", "l", " ", "2">>

\* Rows: group titles, headers, data rows, an empty row, a trailing row.
TitleRow3 == <<S_Title3, None, None>>
TitleRow16 == <<S_Title16, None, None>>
TitleRowBlank == <<S_Title3, <<>>, <<>> >>
HeaderRow == <<S_CaseNumber, S_Address, S_ProjectDescription>>
HeaderRow2 == <<S_Address, S_Case, S_Notes>>
NoColumnHeaderRow == <<S_Update, None, None>>
DataRow1 == <<S_ZA1, S_Elm, S_NewADU>>
DataRow2 == <<S_ZA2, <<>>, S_Stadium>>
EmptyRow == <<None, <<>>, None>>
TrailingRow == <<S_Total, None, None>>
\* a title with a no-break space before the dashes and an Arabic-Indic digit
TitleRowArabic ==
    <<S_CouncilDistrict \o <<"U+00A0", "-", "-", " ", "U+0663">>, None, None>>
\* "adu" behind a letter that is no ASCII letter
DataRow3 == <<S_ZA2, <<>>, <<"É", "A", "D", "U">> >>

\* The rows process_table is run over on its own, in every order.
RowPool ==
    {TitleRow3, TitleRowBlank, HeaderRow, HeaderRow2, NoColumnHeaderRow,
     DataRow1, DataRow2, EmptyRow}

SeqsUpTo(S, n) == UNION {[1..k -> S] : k \in 0..n}

DistrictPool == {<<"3">>}

\* The tables the walker is run over, in every order.
TableA == <<TitleRow3, HeaderRow, DataRow1, TrailingRow>>
TableA16 == <<TitleRow16, HeaderRow, DataRow2, TrailingRow>>
TableCont2 == <<DataRow2, DataRow1>>
TableCont3 == <<DataRow1, DataRow2, TrailingRow>>
TableHdr == <<HeaderRow, DataRow1, TrailingRow>>
TableHdr2 == <<HeaderRow2, DataRow2, TrailingRow>>
TableTitleOnly == <<TitleRow3, DataRow1>>
TableNoColumn == <<NoColumnHeaderRow, DataRow1, DataRow2>>
TableSmall == <<DataRow1>>
\* a group title alone in a one-row table
TableTitleSmall == <<TitleRow16>>
TableArabic == <<TitleRowArabic, HeaderRow, DataRow3, TrailingRow>>

TablePool ==
    {TableA, TableA16, TableCont2, TableCont3, TableHdr, TableHdr2,
     TableTitleOnly, TableNoColumn, TableSmall, TableTitleSmall,
     TableArabic}

\* ------------------------------------------------------------ scraper.py
\* An Optional[int] argument: <<>> is None, <<n>> is the integer n.
NoneArg == <<>>

\* bool(x) of an Optional[int]
ArgTruthy(x) == x # NoneArg /\ x[1] # 0

\* int(c) of a decimal digit
DigitVal(c) == CHOOSE v \in 0..9 : c \in DigitsOfValue[v]

RECURSIVE Number(_)
Number(s) ==
    IF s = <<>> THEN 0 ELSE Number(SubSeq(s, 1, Len(s) - 1)) * 10 + DigitVal(s[Len(s)])

AllDigits(s) == \A i \in DOMAIN s : IsDigit(s[i])

\* s.split("/")
RECURSIVE SplitSlash(_, _)
SplitSlash(s, cur) ==
    IF s = <<>> THEN <<cur>>
    ELSE IF Head(s) = "/" THEN <<cur>> \o SplitSlash(Tail(s), <<>>)
    ELSE SplitSlash(Tail(s), Append(cur, Head(s)))

IsLeap(y) == (y % 4 = 0 /\ y % 100 # 0) \/ y % 400 = 0

DaysIn(m, y) ==
    IF m = 2 THEN (IF IsLeap(y) THEN 29 ELSE 28)
    ELSE IF m \in {4, 6, 9, 11} THEN 30 ELSE 31

\* The pattern strptime builds for '%m/%d/%Y' must match the whole string;
\* no field can hold a "/", so each field matches a part of the split date.
\* The digits the patterns spell out are ASCII, \d is any decimal digit.
NonZeroDigits == {"1", "2", "3", "4", "5", "6", "7", "8", "9"}

\* %m: 1[0-2]|0[1-9]|[1-9]
MonthField(p) ==
    \/ Len(p) = 2 /\ p[1] = "1" /\ p[2] \in {"0", "1", "2"}
    \/ Len(p) = 2 /\ p[1] = "0" /\ p[2] \in NonZeroDigits
    \/ Len(p) = 1 /\ p[1] \in NonZeroDigits

\* %d: 3[0-1]|[1-2]\d|0[1-9]|[1-9]| [1-9]
DayField(p) ==
    \/ Len(p) = 2 /\ p[1] = "3" /\ p[2] \in {"0", "1"}
    \/ Len(p) = 2 /\ p[1] \in {"1", "2"} /\ IsDigit(p[2])
    \/ Len(p) = 2 /\ p[1] \in {"0", " "} /\ p[2] \in NonZeroDigits
    \/ Len(p) = 1 /\ p[1] \in NonZeroDigits

\* %Y: \d\d\d\d
YearField(p) == Len(p) = 4 /\ AllDigits(p)

\* int() of a matched field: a leading blank is skipped
IntOf(p) == IF p[1] = " " THEN Number(Tail(p)) ELSE Number(p)

\* the date of the three fields; the year must be at least 1 and the day a
\* day of the month (ValueError otherwise)
DateOfParts(parts) ==
    IF /\ Len(parts) = 3
       /\ MonthField(parts[1])
       /\ DayField(parts[2])
       /\ YearField(parts[3])
       /\ Number(parts[3]) >= 1
       /\ IntOf(parts[2]) \in 1..DaysIn(Number(parts[1]), Number(parts[3]))
    THEN [ok |-> TRUE, month |-> Number(parts[1]), day |-> IntOf(parts[2]),
          year |-> Number(parts[3])]
    ELSE [ok |-> FALSE, month |-> 0, day |-> 0, year |-> 0]

\* datetime.strptime(date, '%m/%d/%Y') of a string: ok is FALSE where it
\* raises ValueError
strptime(date) == DateOfParts(SplitSlash(date, <<>>))

\* lines 131-146 for a parsed date: TRUE when the link is kept
InRanges(d, sy, ey, sm, em) ==
    IF ArgTruthy(sy) /\ d.year < sy[1] THEN FALSE
    ELSE IF ArgTruthy(ey) /\ d.year > ey[1] THEN FALSE
    ELSE IF ArgTruthy(sm) /\ ArgTruthy(em)
         THEN sm[1] <= d.month /\ d.month <= em[1]
         ELSE IF ArgTruthy(sm) /\ d.month < sm[1] THEN FALSE
         ELSE IF ArgTruthy(em) /\ d.month > em[1] THEN FALSE
         ELSE TRUE

\* lines 128-148 for one link: "keep", "drop" (a continue, or ValueError
\* caught and logged), "raise" (strptime of a value that is no string raises
\* TypeError, which the except clause does not name)
FilterOne(date, sy, ey, sm, em) ==
    IF date = None THEN "raise"
    ELSE IF ~strptime(date).ok THEN "drop"
    ELSE IF InRanges(strptime(date), sy, ey, sm, em) THEN "keep" ELSE "drop"

\* Dates of the listing: Entries[i]['Date'] as the JSON carries it.
S_Jan2023 == <<"0", "1", "/", "1", "5", "/", "2", "0", "2", "3">>
S_Jun2024 == <<"0", "6", "/", "3", "0", "/", "2", "0", "2", "4">>
S_Dec2024 == <<"1", "2", "/", "1", "/", "2", "0", "2", "4">>
S_IsoDate == <<"2", "0", "2", "4", "-", "0", "6", "-", "3", "0">>
S_Feb30 == <<"0", "2", "/", "3", "0", "/", "2", "0", "2", "4">>

S_BlankDay == <<"0", "6", "/", " ", "5", "/", "2", "0", "2", "4">>

\* A link of the listing with what its download and its document will do:
\* fetch is the outcome of lines 60-81 ("pdf": saved; "request_error":
\* requests.get or raise_for_status raises RequestException, lines 60 and 68;
\* "not_pdf": another content type; "os_error": open()/write() raises
\* OSError; "body_error": iter_content raises RequestException while the
\* body is read, line 76), has_records is whether extract_tables_from_pdf
\* returns any record for the document.
Link(date, fetch, has_records) ==
    [date |-> date, fetch |-> fetch, has_records |-> has_records]

LinkPool ==
    {Link(S_Jan2023, "pdf", TRUE),
     Link(S_Jun2024, "pdf", TRUE),
     Link(S_Dec2024, "pdf", FALSE),
     Link(S_Jun2024, "not_pdf", TRUE),
     Link(S_Jun2024, "request_error", TRUE),
     Link(S_Jun2024, "os_error", TRUE),
     Link(S_Jun2024, "body_error", TRUE),
     Link(S_IsoDate, "pdf", TRUE),
     Link(S_Feb30, "pdf", TRUE),
     Link(S_BlankDay, "pdf", TRUE),
     Link(None, "pdf", TRUE),
     Link(None, "request_error", TRUE),
     Link(None, "body_error", TRUE)}

YearArgs == {NoneArg, <<2024>>}
MonthArgs == {NoneArg, <<6>>}

\* positional parameters PDFProcessor.process_pdf takes after self
ProcessPdfParams == 1
\* positional arguments process_pdf_to_csv calls it with
ProcessPdfArgs == 2

\* download_pdf(url, date): "path" (line 81), "None" (lines 66 and 85), or
\* "raise": an exception that is no RequestException leaves the function,
\* AttributeError from date.replace (line 71) when the date is no string,
\* OSError from lines 75-78.  The steps are taken in the order of the code:
\* the request, the content type, the file name, the file, the body.
download_pdf(link) ==
    IF link.fetch = "request_error" THEN "None"
    ELSE IF link.fetch = "not_pdf" THEN "None"
    ELSE IF link.date = None THEN "raise"
    ELSE IF link.fetch = "os_error" THEN "raise"
    ELSE IF link.fetch = "body_error" THEN "None"
    ELSE "path"

\* PDFProcessor.process_pdf as line 94 calls it: "TypeError" when the number
\* of arguments is not the number of parameters, else "df" or "None"
process_pdf(link) ==
    IF ProcessPdfArgs # ProcessPdfParams THEN "TypeError"
    ELSE IF link.has_records THEN "df" ELSE "None"

\* process_pdf_to_csv: "csv" (line 98) or "None" (line 99, and line 103 for
\* anything raised inside the try)
process_pdf_to_csv(link) ==
    IF process_pdf(link) = "df" THEN "csv" ELSE "None"


\* ------------------------------------------------------------------- state
VARIABLES
    \* process_table called on its own: the arguments, the two results
    pt_pc, pt_table, pt_district, pt_first, pt_second,
    \* extract_tables_from_pdf: the locals of the walk
    wpc, all_data, current_district, current_column_mapping, current_table,
    \* the tables consumed so far, and for the properties: the <<table, row>>
    \* each record was built from, the same for each buffered row, the rows
    \* handed to process_table so far, the tables appended as continuations
    tables_seen, all_src, current_src, passed, continued,
    \* download_and_process_all_pdfs: the arguments, the listing, the links
    \* left after the filter (positions in the listing), the position of the
    \* loop in them, the csv paths collected, the value returned, and for the
    \* properties the links download_pdf was called with, in order
    bpc, start_year, end_year, start_month, end_month, pdf_links, filtered,
    next_link, all_csvs, result, downloads

pt_vars == <<pt_pc, pt_table, pt_district, pt_first, pt_second>>
walk_vars == <<wpc, all_data, current_district, current_column_mapping,
               current_table, tables_seen, all_src, current_src, passed, continued>>
batch_vars == <<bpc, start_year, end_year, start_month, end_month, pdf_links,
                filtered, next_link, all_csvs, result, downloads>>
vars == <<pt_vars, walk_vars, batch_vars>>

\* ------------------------------------------- process_table called on its own
PtIdle ==
    /\ pt_pc = "idle"
    /\ pt_table = <<>>
    /\ pt_district = None
    /\ pt_first = NoResult
    /\ pt_second = NoResult

PtInit ==
    /\ pt_pc = "start"
    /\ pt_table \in SeqsUpTo(RowPool, MaxRows)
    /\ pt_district \in DistrictPool
    /\ pt_first = NoResult
    /\ pt_second = NoResult

\* rows, mapping = process_table(table, district)
CallProcessTable ==
    /\ pt_pc = "start"
    /\ pt_first' = process_table(pt_table, pt_district, EmptyMapping)
    /\ pt_pc' = "first"
    /\ UNCHANGED <<pt_table, pt_district, pt_second>>

\* rows2, mapping2 = process_table(table, district, mapping)
CallProcessTableAgain ==
    /\ pt_pc = "first"
    /\ pt_second' = process_table(pt_table, pt_district, pt_first.mapping)
    /\ pt_pc' = "second"
    /\ UNCHANGED <<pt_table, pt_district, pt_first>>

\* ------------------------------------------------- extract_tables_from_pdf
WalkIdle ==
    /\ wpc = "idle"
    /\ all_data = <<>>
    /\ current_district = None
    /\ current_column_mapping = EmptyMapping
    /\ current_table = <<>>
    /\ tables_seen = <<>>
    /\ all_src = <<>>
    /\ current_src = <<>>
    /\ passed = {}
    /\ continued = {}

\* lines 219-222
WalkInit ==
    /\ wpc = "walk"
    /\ all_data = <<>>
    /\ current_district = None
    /\ current_column_mapping = EmptyMapping
    /\ current_table = <<>>
    /\ tables_seen = <<>>
    /\ all_src = <<>>
    /\ current_src = <<>>
    /\ passed = {}
    /\ continued = {}

\* the locals of the walk, as one value
Walk ==
    [all_data |-> all_data, current_district |-> current_district,
     current_column_mapping |-> current_column_mapping,
     current_table |-> current_table, all_src |-> all_src,
     current_src |-> current_src, passed |-> passed, continued |-> continued]

SetWalk(w) ==
    /\ all_data' = w.all_data
    /\ current_district' = w.current_district
    /\ current_column_mapping' = w.current_column_mapping
    /\ current_table' = w.current_table
    /\ all_src' = w.all_src
    /\ current_src' = w.current_src
    /\ passed' = w.passed
    /\ continued' = w.continued

\* the <<table, row>> tags of the rows of the n-th table of the document
TagsOf(n, table) == [r \in DOMAIN table |-> <<n, r>>]

\* line 259
FirstCell(table) ==
    IF table[1] # <<>> /\ Truthy(table[1][1]) THEN Str(table[1][1]) ELSE <<>>

\* line 275
AnyHeaderRow(table) == \E r \in DOMAIN table : is_header_row(table[r])

\* lines 262 and 293: is there something to flush
FlushDue(w) ==
    /\ w.current_table # <<>>
    /\ Truthy(w.current_district)
    /\ MappingTruthy(w.current_column_mapping)

\* lines 264 and 295: all_data.extend(rows)
ExtendData(w, res) ==
    [w EXCEPT !.all_data = @ \o res.rows,
              !.all_src = @ \o [k \in DOMAIN res.src |-> w.current_src[res.src[k]]],
              !.passed = @ \cup Range(w.current_src)]

\* lines 263-264 and 294-295: the buffer goes through process_table
FlushBuffer(w) ==
    ExtendData(w, process_table(w.current_table, w.current_district,
                                w.current_column_mapping))

\* line 265
ClearBuffer(w) == [w EXCEPT !.current_table = <<>>, !.current_src = <<>>]

\* GroupChange with the key switched before the buffer is flushed
GroupChange_SwitchFirst(w, table) ==
    LET switched == [w EXCEPT !.current_district =
                                  extract_district_from_title(FirstCell(table))]
    IN  [(IF FlushDue(w) THEN ClearBuffer(FlushBuffer(switched)) ELSE switched)
            EXCEPT !.current_column_mapping = EmptyMapping]

\* lines 260-269: a table whose first cell is a group title
GroupChange(w, table) ==
    [(IF FlushDue(w) THEN ClearBuffer(FlushBuffer(w)) ELSE w)
        EXCEPT !.current_district = extract_district_from_title(FirstCell(table)),
               !.current_column_mapping = EmptyMapping]

\* Continuation starting the buffer again from the arriving table
Continuation_Replace(w, table, n) ==
    [w EXCEPT !.current_table = table,
              !.current_src = TagsOf(n, table),
              !.continued = @ \cup {n}]

\* lines 277-278
Continuation(w, table, n) ==
    [w EXCEPT !.current_table = @ \o table,
              !.current_src = @ \o TagsOf(n, table),
              !.continued = @ \cup {n}]

\* lines 282-290
Arrived(w, table, n, res) ==
    [w EXCEPT !.current_column_mapping =
                  IF MappingTruthy(res.mapping) THEN res.mapping ELSE @,
              !.current_table =
                  IF MappingTruthy(res.mapping) THEN table ELSE @ \o table,
              !.current_src =
                  IF MappingTruthy(res.mapping) THEN TagsOf(n, table)
                  ELSE @ \o TagsOf(n, table),
              !.all_data = @ \o res.rows,
              !.all_src = @ \o [k \in DOMAIN res.src |-> <<n, res.src[k]>>],
              !.passed = @ \cup Range(TagsOf(n, table))]

\* lines 271-290
InGroup(w, table, n) ==
    IF ~Truthy(w.current_district) THEN w
    ELSE IF MappingTruthy(w.current_column_mapping) /\ ~AnyHeaderRow(table)
         THEN Continuation(w, table, n)
         ELSE Arrived(w, table, n,
                      process_table(table, w.current_district,
                                    w.current_column_mapping))

\* One iteration of the loop over the tables (lines 245-290); the pages only
\* deliver the tables in order, a page without tables delivers none.
WalkTable(w, table, n) ==
    IF Len(table) < 2 THEN w
    ELSE InGroup(IF Contains(S_CouncilDistrict, FirstCell(table))
                 THEN GroupChange(w, table) ELSE w,
                 table, n)

NextTable ==
    /\ wpc = "walk"
    /\ Len(tables_seen) < MaxTables
    /\ \E table \in TablePool :
          /\ SetWalk(WalkTable(Walk, table, Len(tables_seen) + 1))
          /\ tables_seen' = Append(tables_seen, table)
    /\ UNCHANGED wpc

\* lines 292-297: the last flush and the return
EndOfDocument ==
    /\ wpc = "walk"
    /\ SetWalk(IF FlushDue(Walk) THEN FlushBuffer(Walk) ELSE Walk)
    /\ wpc' = "done"
    /\ UNCHANGED tables_seen

\* ------------------------------------------- download_and_process_all_pdfs
BatchIdle ==
    /\ bpc = "idle"
    /\ start_year = NoneArg /\ end_year = NoneArg
    /\ start_month = NoneArg /\ end_month = NoneArg
    /\ pdf_links = <<>>
    /\ filtered = <<>>
    /\ next_link = 1
    /\ all_csvs = <<>>
    /\ result = "None"
    /\ downloads = <<>>

\* lines 120-122: the call, and the listing get_pdf_links returned
BatchInit ==
    /\ bpc = "filter"
    /\ start_year \in YearArgs /\ end_year \in YearArgs
    /\ start_month \in MonthArgs /\ end_month \in MonthArgs
    /\ pdf_links \in SeqsUpTo(LinkPool, MaxLinks)
    /\ filtered = <<>>
    /\ next_link = 1
    /\ all_csvs = <<>>
    /\ result = "None"
    /\ downloads = <<>>

FilterGiven ==
    ArgTruthy(start_year) \/ ArgTruthy(end_year) \/ ArgTruthy(start_month)
        \/ ArgTruthy(end_month)

Verdict(i) ==
    FilterOne(pdf_links[i].date, start_year, end_year, start_month, end_month)

\* the positions in idx whose link is kept, in order
RECURSIVE KeepLinks(_)
KeepLinks(idx) ==
    IF idx = <<>> THEN <<>>
    ELSE IF Verdict(Head(idx)) = "keep"
         THEN <<Head(idx)>> \o KeepLinks(Tail(idx))
         ELSE KeepLinks(Tail(idx))

\* lines 124-150: the filter runs over the whole listing before the loop
FilterLinks ==
    /\ bpc = "filter"
    /\ IF ~FilterGiven
       THEN /\ filtered' = [i \in DOMAIN pdf_links |-> i]
            /\ bpc' = "loop"
       ELSE IF \E i \in DOMAIN pdf_links : Verdict(i) = "raise"
            THEN /\ filtered' = filtered
                 /\ bpc' = "raised"
            ELSE /\ filtered' = KeepLinks([i \in DOMAIN pdf_links |-> i])
                 /\ bpc' = "loop"
    /\ UNCHANGED <<start_year, end_year, start_month, end_month, pdf_links,
                   next_link, all_csvs, result, downloads>>

\* lines 152-157: one iteration of the loop
DownloadAndProcess ==
    /\ bpc = "loop"
    /\ next_link <= Len(filtered)
    /\ LET i == filtered[next_link]
           pdf_path == download_pdf(pdf_links[i])
       IN  /\ downloads' = Append(downloads, i)
           /\ IF pdf_path = "raise"
              THEN /\ bpc' = "raised"
                   /\ UNCHANGED <<next_link, all_csvs>>
              ELSE /\ bpc' = "loop"
                   /\ next_link' = next_link + 1
                   /\ all_csvs' =
                         IF pdf_path = "path" /\ process_pdf_to_csv(pdf_links[i]) = "csv"
                         THEN Append(all_csvs, i) ELSE all_csvs
    /\ UNCHANGED <<start_year, end_year, start_month, end_month, pdf_links,
                   filtered, result>>

\* lines 159-183: the combined csv, or None
CombineAndReturn ==
    /\ bpc = "loop"
    /\ next_link > Len(filtered)
    /\ result' = IF all_csvs # <<>> THEN "combined_csv_path" ELSE "None"
    /\ bpc' = "done"
    /\ UNCHANGED <<start_year, end_year, start_month, end_month, pdf_links,
                   filtered, next_link, all_csvs, downloads>>

\* ---------------------------------------------------------- specifications
\* The walk of one document.
Init == WalkInit /\ PtIdle /\ BatchIdle
Next ==
    \/ NextTable /\ UNCHANGED <<pt_vars, batch_vars>>
    \/ EndOfDocument /\ UNCHANGED <<pt_vars, batch_vars>>
Spec == Init /\ [][Next]_vars

\* process_table on one table, then again with the mapping it returned.
InitTable == PtInit /\ WalkIdle /\ BatchIdle
NextTableCall ==
    \/ CallProcessTable /\ UNCHANGED <<walk_vars, batch_vars>>
    \/ CallProcessTableAgain /\ UNCHANGED <<walk_vars, batch_vars>>
SpecTable == InitTable /\ [][NextTableCall]_vars

\* One run of download_and_process_all_pdfs.
InitBatch == BatchInit /\ WalkIdle /\ PtIdle
NextBatch ==
    \/ FilterLinks /\ UNCHANGED <<pt_vars, walk_vars>>
    \/ DownloadAndProcess /\ UNCHANGED <<pt_vars, walk_vars>>
    \/ CombineAndReturn /\ UNCHANGED <<pt_vars, walk_vars>>
SpecBatch == InitBatch /\ [][NextBatch]_vars

\* ========================================================= the properties
\* --- helpers of the properties
\* the header row find_header_row returns is row 0
HeaderIsRow0(table) ==
    /\ Len(table) >= 1
    /\ is_header_row(table[1])
    /\ RowMapping(table[1]) # EmptyMapping

\* the walk's locals before the first table
Walk0 ==
    [all_data |-> <<>>, current_district |-> None,
     current_column_mapping |-> EmptyMapping, current_table |-> <<>>,
     all_src |-> <<>>, current_src |-> <<>>, passed |-> {}, continued |-> {}]

\* the walk's locals after the first k tables of the document
RECURSIVE WalkPrefix(_)
WalkPrefix(k) ==
    IF k = 0 THEN Walk0 ELSE WalkTable(WalkPrefix(k - 1), tables_seen[k], k)

IsTitleTable(table) ==
    Len(table) >= 2 /\ Contains(S_CouncilDistrict, FirstCell(table))

\* the locals at the moment line 271 is reached for the k-th table
AtArrival(k) ==
    IF IsTitleTable(tables_seen[k])
    THEN GroupChange(WalkPrefix(k - 1), tables_seen[k])
    ELSE WalkPrefix(k - 1)

\* Table k carries a header row and is processed on arrival with no mapping
\* active; table k+1 follows it immediately, has no header row, opens no new
\* group, and ends the document.
MergeCase(k) ==
    /\ k + 1 = Len(tables_seen)
    /\ Len(tables_seen[k]) >= 2
    /\ Truthy(AtArrival(k).current_district)
    /\ ~MappingTruthy(AtArrival(k).current_column_mapping)
    /\ find_header_row(tables_seen[k])[1] # -1
    /\ Len(tables_seen[k + 1]) >= 2
    /\ ~IsTitleTable(tables_seen[k + 1])
    /\ ~AnyHeaderRow(tables_seen[k + 1])

\* the records of the output built from rows of the tables in T
RecordsFrom(T) == {i \in DOMAIN all_src : all_src[i][1] \in T}

\* C1 (as claimed; the code violates it): when table A with a header row is
\* followed immediately by a continuation table B of the same group, the
\* output holds one record per data row of A (its header row, the rows above
\* it and its trailing row excluded) and of B (its trailing row excluded),
\* and every record from B is built with A's column mapping.
C1_ContinuationMergeCount ==
    wpc = "done" =>
        \A k \in 1..(Len(tables_seen) - 1) :
            MergeCase(k) =>
                LET A == tables_seen[k]
                    B == tables_seen[k + 1]
                    d == AtArrival(k).current_district
                    mA == find_header_row(A)[2]
                IN  /\ Cardinality(RecordsFrom({k, k + 1}))
                         = Len(process_table(A, d, EmptyMapping).src)
                           + Len(process_table(B, d, mA).src)
                    /\ \A i \in RecordsFrom({k + 1}) :
                          all_data[i] = MakeRecord(B[all_src[i][2]], d, mA)

\* C2 (as claimed; the code violates it): no row of any table gives rise to
\* more than one record of the output.
C2_OneRecordPerRow ==
    \A i, j \in DOMAIN all_src : all_src[i] = all_src[j] => i = j

\* C3 (as claimed; refuted): process_table with no mapping, then again on the
\* same table with the mapping the first call returned, yields the same
\* records and the same mapping.
C3_Idempotent ==
    pt_pc = "second" =>
        /\ pt_second.rows = pt_first.rows
        /\ pt_second.mapping = pt_first.mapping

\* every row above the header row is one the data-row filter skips (there is
\* none when the header is row 0, or when no header is found)
NoDataAboveHeader(table) ==
    \A i \in 1..find_header_row(table)[1] : RowSkipped(table[i])

\* C3 (amended): the second call returns the same mapping, and it yields the
\* same records whenever every row above the header row is skipped by the
\* data-row filter, in particular when the header is row 0.
C3_IdempotentBelowHeader ==
    pt_pc = "second" =>
        /\ pt_second.mapping = pt_first.mapping
        /\ NoDataAboveHeader(pt_table) => pt_second.rows = pt_first.rows

C3_Witness ==
    /\ pt_pc = "second"
    /\ HeaderIsRow0(pt_table)
    /\ Len(pt_first.rows) >= 1
    /\ pt_second.rows = pt_first.rows

\* C4: the final row of the table passed to process_table never produces a
\* record, with or without a mapping supplied; a table of N >= 3 rows whose
\* header is row 0 yields at most N-2 records.
C4_LastRowExcluded ==
    /\ \A res \in {pt_first, pt_second} : Len(pt_table) \notin Range(res.src)
    /\ (Len(pt_table) >= 3 /\ HeaderIsRow0(pt_table))
          => Len(pt_first.rows) <= Len(pt_table) - 2

C4_Witness ==
    /\ pt_pc = "second"
    /\ Len(pt_table) >= 3
    /\ HeaderIsRow0(pt_table)
    /\ ~RowSkipped(pt_table[Len(pt_table)])
    /\ Len(pt_first.rows) = Len(pt_table) - 2
    /\ Len(pt_second.rows) = Len(pt_table) - 2

\* the standard columns some cell of the row is stored into
ColumnsWritten(row, column_mapping) ==
    {column_mapping[i] : i \in {i \in DOMAIN column_mapping : i < Len(row)}}

\* C5: every record process_table returns has exactly the standard columns as
\* its keys, and every column no mapped cell of its row is stored into, other
\* than the stamped Council District and the derived Is ADU, is empty.
C5_FixedSchema ==
    \A res \in {pt_first, pt_second} :
        \A k \in DOMAIN res.rows :
            /\ DOMAIN res.rows[k] = Range(STANDARD_COLUMNS)
            /\ \A c \in Range(STANDARD_COLUMNS) \ {"Council District", "Is ADU"} :
                  c \notin ColumnsWritten(pt_table[res.src[k]], res.mapping)
                      => res.rows[k][c] = <<>>

C5_Witness ==
    /\ pt_pc = "second"
    /\ \E k \in DOMAIN pt_second.rows :
          /\ pt_second.rows[k]["Case Number"] # <<>>
          /\ pt_second.rows[k]["CNC"] = <<>>
          /\ pt_second.rows[k]["Council District"] = pt_district

\* the decimal strings of 1..15
DistrictNumbers ==
    {<<Digits[n + 1]>> : n \in 1..9} \cup {<<"1", Digits[n + 1]>> : n \in 0..5}

\* C9 (as claimed; the code violates it): no record of the output carries a
\* Council District other than a number in 1..15 or the empty string.
C9_DistrictSanitized ==
    \A k \in DOMAIN all_data :
        all_data[k]["Council District"] \in DistrictNumbers \cup {<<>>}

\* C10 (as claimed; the code violates it): when the walk returns, every row
\* of every table appended to the buffer as a continuation has been handed to
\* process_table.
C10_ContinuationsProcessed ==
    wpc = "done" =>
        \A n \in continued :
            \A r \in DOMAIN tables_seen[n] : <<n, r>> \in passed

\* the run is over: it returned, or an exception left it
BatchOver == bpc \in {"done", "raised"}

\* C6 (as claimed; the code violates it): the run returns the combined-output
\* path exactly when at least one document was downloaded and holds records.
C6_CombinedWhenRecords ==
    bpc = "done" =>
        (result # "None" <=>
            \E k \in DOMAIN downloads :
                /\ download_pdf(pdf_links[downloads[k]]) = "path"
                /\ pdf_links[downloads[k]].has_records)

\* the loop over the filtered list was entered, and the run is over
LoopOver == bpc = "done" \/ (bpc = "raised" /\ downloads # <<>>)

\* C7 (as claimed; the code violates it): whatever fails for one document of
\* the filtered list, download_pdf is called for every document of the list,
\* in order, and a document that failed contributes no csv.
C7_FailureIsolated ==
    LoopOver =>
        /\ downloads = filtered
        /\ \A k \in DOMAIN all_csvs :
              download_pdf(pdf_links[all_csvs[k]]) = "path"

\* what the date-range filter is claimed to keep: the date parses as
\* MM/DD/YYYY and lies in the inclusive year and month ranges, a missing
\* bound being no limit
ClaimedKept(link) ==
    /\ link.date # None
    /\ strptime(link.date).ok
    /\ start_year # NoneArg => strptime(link.date).year >= start_year[1]
    /\ end_year # NoneArg => strptime(link.date).year <= end_year[1]
    /\ start_month # NoneArg => strptime(link.date).month >= start_month[1]
    /\ end_month # NoneArg => strptime(link.date).month <= end_month[1]

AnyArgGiven ==
    \/ start_year # NoneArg \/ end_year # NoneArg
    \/ start_month # NoneArg \/ end_month # NoneArg

\* C8 (as claimed; the code violates it): with a range given, no download is
\* issued while the filter runs, a malformed date never ends the run, and when
\* the run is over the links downloaded are exactly the links whose date
\* parses and lies in the ranges.
C8_DateRangeFilter ==
    AnyArgGiven =>
        /\ bpc = "filter" => downloads = <<>>
        /\ BatchOver =>
              \A i \in DOMAIN pdf_links :
                  (i \in Range(downloads)) <=> ClaimedKept(pdf_links[i])

\* the group-title tables among the first n tables of the document
TitlesUpTo(n) == {k \in 1..n : IsTitleTable(tables_seen[k])}

\* the group key the walker takes from a group-title table (line 267)
GroupKeyOf(table) == extract_district_from_title(FirstCell(table))

\* the largest element of a non-empty set of numbers
MaxOf(S) == CHOOSE k \in S : \A j \in S : j <= k

\* the tables among the first n of the document whose first cell is a group
\* title, whatever their number of rows
FirstCellTitlesUpTo(n) ==
    {k \in 1..n : Contains(S_CouncilDistrict, FirstCell(tables_seen[k]))}

\* C11 (as claimed; refuted): every record of the walker's output is built
\* from a row of a table at or after the first table whose first cell is a
\* group title, and carries the group key of the most recent such table at or
\* before the table its row came from.
C11_GroupStampingAnyTitle ==
    \A i \in DOMAIN all_src :
        /\ FirstCellTitlesUpTo(all_src[i][1]) # {}
        /\ all_data[i]["Council District"]
              = GroupKeyOf(tables_seen[MaxOf(FirstCellTitlesUpTo(all_src[i][1]))])

\* C11 (amended): the same, counting as group-title tables only those of at
\* least two rows: every record of the walker's output is built from a row of
\* a table at or after the first group-title table of at least two rows, and
\* carries the group key of the most recent such table at or before the table
\* its row came from; rows buffered for a group are therefore flushed under
\* that group's key, before the key is switched.
C11_GroupStamping ==
    \A i \in DOMAIN all_src :
        /\ TitlesUpTo(all_src[i][1]) # {}
        /\ all_data[i]["Council District"]
              = GroupKeyOf(tables_seen[MaxOf(TitlesUpTo(all_src[i][1]))])

\* a continuation table of one group was flushed when the title of another
\* group arrived, and records of both groups are in the output
C11_Witness ==
    /\ wpc = "done"
    /\ \E i, j \in DOMAIN all_src :
          /\ all_src[i][1] \in continued
          /\ all_src[i][1] < all_src[j][1]
          /\ IsTitleTable(tables_seen[all_src[j][1]])
          /\ all_data[i]["Council District"] # all_data[j]["Council District"]

\* the table the step just taken consumed
ArrivingTable == tables_seen'[Len(tables_seen')]

\* C12: process_table returns exactly the mapping it is given when one is
\* supplied, and in a step of the walker that starts with a mapping active
\* the mapping is the same afterwards unless the arriving table is a
\* group-title table, even when the arriving table has a header row of its own.
C12_MappingStable ==
    [][(MappingTruthy(current_column_mapping) /\ tables_seen' # tables_seen)
          => /\ process_table(ArrivingTable, current_district,
                              current_column_mapping).mapping
                   = current_column_mapping
             /\ ~IsTitleTable(ArrivingTable)
                   => current_column_mapping' = current_column_mapping]_vars

\* a table of the same group with a header row of its own, naming other
\* columns, has just been processed under the mapping of the group
C12_Witness ==
    /\ wpc = "walk"
    /\ Len(tables_seen) >= 2
    /\ ~IsTitleTable(tables_seen[Len(tables_seen)])
    /\ find_header_row(tables_seen[Len(tables_seen)])[1] # -1
    /\ find_header_row(tables_seen[Len(tables_seen)])[2] # current_column_mapping
    /\ MappingTruthy(current_column_mapping)
    /\ current_table = tables_seen[Len(tables_seen)]
    /\ current_column_mapping = find_header_row(tables_seen[1])[2]

\* the 1-based positions of the cells of a row that are truthy and resolve to
\* a canonical column name
ResolvedCells(row) ==
    {j \in DOMAIN row : Truthy(row[j]) /\ map_column_name(Str(row[j])) # NoName}

\* the 1-based positions of the rows that classify as a header and resolve
\* at least one column
QualifyingRows(table) ==
    {i \in DOMAIN table : is_header_row(table[i]) /\ ResolvedCells(table[i]) # {}}

\* the smallest element of a non-empty set of numbers
MinOf(S) == CHOOSE k \in S : \A j \in S : k <= j

\* what the header search is claimed to give when row h is the header row
HeaderSearchAt(table, h, res) ==
    /\ DOMAIN res.mapping = {j - 1 : j \in ResolvedCells(table[h])}
    /\ \A c \in DOMAIN res.mapping :
          /\ res.mapping[c] = map_column_name(Str(table[h][c + 1]))
          /\ res.mapping[c] \in Range(STANDARD_COLUMNS)
    /\ \A k \in DOMAIN res.src : res.src[k] > h
    /\ \A i \in (h + 1)..(Len(table) - 1) :
          ~RowSkipped(table[i]) => i \in Range(res.src)

\* C13: process_table with no mapping supplied takes as header row the first
\* row, top to bottom, that classifies as a header and resolves at least one
\* column, passing over header-classified rows above it that resolve none;
\* the mapping it returns holds exactly the column indices of that row that
\* resolve, each with its canonical name; the records come from the rows
\* below it; and when no row qualifies it returns no records and an empty
\* mapping.
C13_HeaderSearch ==
    pt_pc # "start" =>
        IF QualifyingRows(pt_table) = {}
        THEN pt_first.rows = <<>> /\ pt_first.mapping = EmptyMapping
        ELSE HeaderSearchAt(pt_table, MinOf(QualifyingRows(pt_table)), pt_first)

\* a header-classified row that resolves no column lies above the header row,
\* another qualifying row lies below it, and the mapping is the header row's
C13_Witness ==
    /\ pt_pc = "first"
    /\ Len(pt_table) = MaxRows
    /\ is_header_row(pt_table[1])
    /\ ResolvedCells(pt_table[1]) = {}
    /\ 2 \in QualifyingRows(pt_table)
    /\ 3 \in QualifyingRows(pt_table)
    /\ RowMapping(pt_table[3]) # RowMapping(pt_table[2])
    /\ pt_first.mapping = RowMapping(pt_table[2])
    /\ pt_first.mapping # EmptyMapping

\* the step just taken consumed a table
TableArrives == tables_seen' # tables_seen

\* what the deferral promises of the step: the arriving table's rows are
\* appended to the buffer; output, mapping and group key are as before
Deferred ==
    /\ current_table' = current_table \o ArrivingTable
    /\ all_data' = all_data
    /\ current_column_mapping' = current_column_mapping
    /\ current_district' = current_district

\* every record the step adds for a table appended as a continuation is built
\* from a row that was in the buffer, by the flush of a group change or by
\* the flush at the end of the document
OnlyByFlush ==
    \A i \in DOMAIN all_src' :
        (i > Len(all_src) /\ all_src'[i][1] \in continued')
            => /\ FlushDue(Walk)
               /\ all_src'[i] \in Range(current_src)
               /\ wpc' = "done" \/ (TableArrives /\ IsTitleTable(ArrivingTable))

\* C14 (as claimed; refuted): in every step in which a table arrives while a
\* mapping is active and no row of the table classifies as a header, the
\* table's rows are appended to the buffer and the output, the mapping and the
\* group key are unchanged; its rows give records only at a later flush.
C14_ContinuationDeferral ==
    [][/\ (TableArrives /\ MappingTruthy(current_column_mapping)
              /\ ~AnyHeaderRow(ArrivingTable)) => Deferred
       /\ OnlyByFlush]_vars

\* C14 (amended): the same, for an arriving table that has at least two rows
\* and whose first cell is not a group title.
C14_ContinuationDeferralInGroup ==
    [][/\ (TableArrives /\ MappingTruthy(current_column_mapping)
              /\ ~AnyHeaderRow(ArrivingTable)
              /\ Len(ArrivingTable) >= 2
              /\ ~IsTitleTable(ArrivingTable)) => Deferred
       /\ OnlyByFlush]_vars

\* a continuation table has just been appended behind the rows already
\* buffered, the output holds records, and none of them is from that table
C14_Witness ==
    /\ wpc = "walk"
    /\ Len(tables_seen) >= 2
    /\ Len(tables_seen) \in continued
    /\ ~AnyHeaderRow(tables_seen[Len(tables_seen)])
    /\ MappingTruthy(current_column_mapping)
    /\ current_table = tables_seen[Len(tables_seen) - 1] \o tables_seen[Len(tables_seen)]
    /\ all_data # <<>>
    /\ RecordsFrom({Len(tables_seen)}) = {}
====
